---- MODULE Spec2Model ----
(***************************************************************************)
(* The multi-role dialogue orchestrator of the restaurant voice assistant: *)
(* the per-conversation UserData record, the active agent (role), the      *)
(* function tools each agent exposes, and the Firebase store the           *)
(* confirmation tools write to.                                            *)
(*                                                                         *)
(* Strings the code inspects character by character (phone numbers,        *)
(* customer names) are sequences of one-character strings; opaque strings  *)
(* (dates, times, item names, reply texts) are TLA+ strings.               *)
(***************************************************************************)
EXTENDS Integers, Sequences, FiniteSets, TLC

VARIABLES
    role,       \* class of session.current_agent; "EndCall" once the room is deleted
    userdata,   \* the session's UserData record
    firebase,   \* Firestore collections written by FirebaseManager
    last,       \* the most recent tool invocation: agent, tool, arguments, result, store calls
    chat_ctx    \* chat items of the active agent and of the session history

vars == <<role, userdata, firebase, last, chat_ctx>>

(***************************************************************************)
(* Bounds of the model.                                                    *)
(***************************************************************************)
MaxOrderLen == 1        \* line items a draft order may hold in the model
MaxReservations == 1    \* reservation documents the store may hold in the model
MaxDigits == 12         \* longest digit string among the phone inputs
MaxMixedLen == 4        \* longest transcript of mixed item kinds given to truncate
MaxPlainLen == 10       \* longest transcript of plain messages given to truncate
MaxKeepLast == 6        \* largest keep_last_n_messages given to truncate
MaxMergeLen == 3        \* longest transcript given to merge
MaxTurns == 4           \* turns of conversation before the first handoff
MaxStoredOrders == 2    \* order documents create_order may leave in the store
MaxHookTurns == 3       \* caller turns the per-turn hook is run on

(***************************************************************************)
(* Characters and strings.                                                 *)
(***************************************************************************)
DigitChars == <<"0", "1", "2", "3", "4", "5", "6", "7", "8", "9">>

\* str.isdigit on one character
isdigit(c) == \E i \in 1..Len(DigitChars) : DigitChars[i] = c

LowerChars == <<"a", "b", "c", "l", "m", "o", "s">>
UpperChars == <<"A", "B", "C", "L", "M", "O", "S">>

isspace(c) == c = " "

isalpha(c) == \E i \in 1..Len(LowerChars) : c = LowerChars[i] \/ c = UpperChars[i]

upper_char(c) ==
    IF \E i \in 1..Len(LowerChars) : c = LowerChars[i]
    THEN UpperChars[CHOOSE i \in 1..Len(LowerChars) : c = LowerChars[i]]
    ELSE c

lower_char(c) ==
    IF \E i \in 1..Len(UpperChars) : c = UpperChars[i]
    THEN LowerChars[CHOOSE i \in 1..Len(UpperChars) : c = UpperChars[i]]
    ELSE c

\* str.strip(): drop leading and trailing whitespace
RECURSIVE lstrip(_)
lstrip(s) == IF s # <<>> /\ isspace(Head(s)) THEN lstrip(Tail(s)) ELSE s

RECURSIVE rstrip(_)
rstrip(s) ==
    IF s # <<>> /\ isspace(s[Len(s)]) THEN rstrip(SubSeq(s, 1, Len(s) - 1)) ELSE s

strip(s) == rstrip(lstrip(s))

\* str.title(): a letter that follows a non-letter is upper-cased, every other
\* letter is lower-cased
title(s) ==
    [i \in 1..Len(s) |->
        IF i = 1 \/ ~isalpha(s[i - 1]) THEN upper_char(s[i]) ELSE lower_char(s[i])]

\* str.lower()
lower(s) == [i \in 1..Len(s) |-> lower_char(s[i])]

\* re.match of email_pattern, ^[a-zA-Z0-9._%+-]+@[a-zA-Z0-9.-]+\.[a-zA-Z]{2,}$:
\* a local part, "@", a domain, and a last dot followed by two or more letters
email_pattern(s) ==
    \E a \in 1..Len(s), k \in 1..Len(s) :
        /\ a > 1
        /\ s[a] = "@"
        /\ \A i \in 1..(a - 1) :
              isalpha(s[i]) \/ isdigit(s[i]) \/ s[i] \in {".", "_", "%", "+", "-"}
        /\ k > a + 1
        /\ s[k] = "."
        /\ \A i \in (a + 1)..(k - 1) :
              isalpha(s[i]) \/ isdigit(s[i]) \/ s[i] \in {".", "-"}
        /\ Len(s) - k >= 2
        /\ \A i \in (k + 1)..Len(s) : isalpha(s[i])

(***************************************************************************)
(* Phone normalisation of update_customer_phone.                           *)
(***************************************************************************)
\* clean_phone with the prefix put in front of the argument as given
clean_phone_prefixing_input(phone) ==
    LET clean == SelectSeq(phone, isdigit)
    IN  IF Len(clean) = 10 THEN <<"+", "1">> \o phone
        ELSE IF Len(clean) = 11 /\ clean[1] = "1" THEN <<"+">> \o phone
        ELSE clean

\* clean_phone falling back to the argument as given
clean_phone_keeping_input(phone) ==
    LET clean == SelectSeq(phone, isdigit)
    IN  IF Len(clean) = 10 THEN <<"+", "1">> \o clean
        ELSE IF Len(clean) = 11 /\ clean[1] = "1" THEN <<"+">> \o clean
        ELSE phone

\* clean_phone with the country code put before whatever digits there are
clean_phone_always_prefixing(phone) ==
    <<"+", "1">> \o SelectSeq(phone, isdigit)

\* clean_phone = ''.join(filter(str.isdigit, phone)), then the country-code
\* prefix for 10 digits and for 11 digits starting with 1
clean_phone(phone) ==
    LET clean == SelectSeq(phone, isdigit)
    IN  IF Len(clean) = 10 THEN <<"+", "1">> \o clean
        ELSE IF Len(clean) = 11 /\ clean[1] = "1" THEN <<"+">> \o clean
        ELSE clean

\* SipCallHandler._normalize_phone: "unknown" for no number, the same prefix
\* rule, and otherwise the argument as it was given
normalize_phone(phone) ==
    IF phone = <<>> THEN <<"u", "n", "k", "n", "o", "w", "n">>
    ELSE LET clean == SelectSeq(phone, isdigit)
         IN  IF Len(clean) = 10 THEN <<"+", "1">> \o clean
             ELSE IF Len(clean) = 11 /\ clean[1] = "1" THEN <<"+">> \o clean
             ELSE phone

(***************************************************************************)
(* Inputs.                                                                 *)
(***************************************************************************)
\* a digit string of n digits beginning with first
DigitString(first, n) ==
    [i \in 1..n |-> IF i = 1 THEN first ELSE DigitChars[(i % 10) + 1]]

DigitStrings ==
    {<<>>} \cup {DigitString(f, n) : f \in {"1", "5"}, n \in 1..MaxDigits}

\* d with the separator sep written after each position in at
RECURSIVE Interleave(_, _, _, _)
Interleave(d, sep, at, i) ==
    IF i > Len(d) THEN <<>>
    ELSE <<d[i]>> \o (IF i \in at THEN <<sep>> ELSE <<>>) \o Interleave(d, sep, at, i + 1)

\* the ways a caller's number is written: bare, +prefixed, dashed,
\* parenthesised area code, spaced, with a trailing extension mark
PhoneFormats(d) ==
    { d,
      <<"+">> \o d,
      Interleave(d, "-", {3, 6}, 1),
      <<"(">> \o Interleave(d, ")", {3}, 1),
      Interleave(d, " ", {1, 4, 7}, 1),
      d \o <<"x">> }

PhoneInputs == UNION {PhoneFormats(d) : d \in DigitStrings}

\* the phone argument of the conversation model: a dashed 10-digit number
PhoneArgs == { Interleave(DigitString("5", 10), "-", {3, 6}, 1) }

NameArgs == { <<"s", "a", "m", " ">> }

\* an address that matches the pattern once stripped, and one that does not
EmailArgs == { <<" ", "A", "@", "b", ".", "c", "o">>, <<"a", "@", "b">> }

InstructionArgs == {"no sugar"}

DateArgs == {"2025-06-01"}
TimeArgs == {"19:00"}
PartySizes == {0, 2}
ItemArgs == {"Coffee"}
Quantities == {0, 1}
PaymentMethods == {"card"}
\* values uuid.uuid4() may return
OrderIds == {"uuid-a", "uuid-b"}

\* new_value texts for a party-size correction, with what int() makes of them
PartySizeTexts == {"2", "0", "two"}

int(text) ==
    CASE text = "2" -> [ok |-> TRUE, value |-> 2]
      [] text = "0" -> [ok |-> TRUE, value |-> 0]
      [] OTHER -> [ok |-> FALSE, value |-> 0]     \* ValueError

(***************************************************************************)
(* Tool results: None, a text for the model, or the next agent.            *)
(***************************************************************************)
NoOp == [kind |-> "NoOp", value |-> ""]
Advisory(text) == [kind |-> "Advisory", value |-> text]
Handoff(agent) == [kind |-> "Handoff", value |-> agent]
Raised(exc) == [kind |-> "Error", value |-> exc]

OrderSuccessText == "Perfect! Your order is all set."
OrderRefusalText == "I just need to get your name and phone number to complete this order."
ReservationSuccessText == "Great! Your table is reserved."
ReservationRefusalText == "I just need a few more details to get your table reserved."
ApologyText == "Oops, something went wrong on our end."

Roles == {"IntentRouter", "OrderTaking", "ReservationTaking", "Confirmation", "EndCall"}

\* what a tool invocation does: its return value, the UserData and the store
\* it leaves, the store commits it invoked, whether it deleted the room, and
\* the customer lookups it made (none unless the tool says so)
Outcome(result, ud, store, commits) ==
    [result |-> result, userdata |-> ud, firebase |-> store, commits |-> commits,
     room_deleted |-> FALSE, lookups |-> <<>>]

\* the agent that is active once the tool has returned: a returned Agent
\* becomes the session's current agent, anything else leaves it in place
NextAgent(result) == IF result.kind = "Handoff" THEN result.value ELSE role

(***************************************************************************)
(* The store.                                                              *)
(***************************************************************************)
KnownPhone == clean_phone(DigitString("5", 10))

\* the menu_items collection as quick_seed.py fills it, cut down to the one
\* item the model orders; the price is in cents (3.99)
SeedMenu ==
    { [name |-> "Coffee", description |-> "Freshly brewed house blend coffee",
       price |-> 399, category |-> "beverages"] }

\* FirebaseManager._load_menu: the in-memory cache holds the documents read
\* at start-up, or stays {} when the read fails
load_menu(up, docs) == IF up THEN docs ELSE {}

\* FirebaseManager.get_menu_text: the menu lines by category, or a fixed text
\* when the cache is empty; item['name'], item['price'] and
\* item['description'] raise KeyError on a document without the field
get_menu_text(menu_items) ==
    IF menu_items = {}
    THEN [ok |-> TRUE, value |-> "Menu currently unavailable"]
    ELSE IF \E item \in menu_items :
               ~({"name", "price", "description"} \subseteq DOMAIN item)
    THEN [ok |-> FALSE, value |-> "KeyError"]
    ELSE [ok |-> TRUE,
          value |-> { <<IF "category" \in DOMAIN item THEN item.category ELSE "other",
                        item.name, item.price, item.description>> :
                      item \in menu_items }]

\* the customers collection as the session finds it: one returning customer
CustomerDocs ==
    { [phone |-> KnownPhone, name |-> <<"A", "l">>, loyalty_points |-> 10,
       total_orders |-> 1] }

\* orders of earlier calls already in the orders collection
PriorOrders == << [customer_phone |-> KnownPhone, order_time |-> "2025-05-01"] >>

\* FirebaseManager.get_customer_order_history: the orders filed under the
\* phone; an unreachable store gives []
get_customer_order_history(up, phone_number) ==
    IF up
    THEN SelectSeq(PriorOrders \o firebase.orders,
                   LAMBDA o : o.customer_phone = phone_number)
    ELSE <<>>

\* FirebaseManager.get_customer_preferences: the customer document, or {}
get_customer_preferences(up, phone) ==
    IF up /\ \E c \in firebase.customers : c.phone = phone
    THEN {c \in firebase.customers : c.phone = phone}
    ELSE {}

\* FirebaseManager.get_customer_data: the customer document with its recent
\* orders and preferences; {} (found = FALSE) when there is no document or
\* the store cannot be reached
get_customer_data(up, phone_number) ==
    IF up /\ \E c \in firebase.customers : c.phone = phone_number
    THEN LET c == CHOOSE c \in firebase.customers : c.phone = phone_number
         IN  [found |-> TRUE, name |-> c.name, loyalty_points |-> c.loyalty_points,
              recent_orders |-> get_customer_order_history(up, phone_number),
              preferences |-> get_customer_preferences(up, phone_number)]
    ELSE [found |-> FALSE, name |-> <<>>, loyalty_points |-> 0,
          recent_orders |-> <<>>, preferences |-> {}]

\* OrderItem (a dataclass): the fields, and those without a default
OrderItemFields ==
    {"menu_item_id", "menu_item_name", "quantity", "unit_price", "modifications"}

OrderItemRequired == {"menu_item_id", "menu_item_name", "quantity", "unit_price"}

\* OrderItem(**kwargs): the generated __init__ raises TypeError when a field
\* without a default is not supplied or an unknown keyword is
OrderItem(kwargs) ==
    IF OrderItemRequired \subseteq DOMAIN kwargs /\ DOMAIN kwargs \subseteq OrderItemFields
    THEN [ok |-> TRUE,
          value |-> [menu_item_id |-> kwargs.menu_item_id,
                     menu_item_name |-> kwargs.menu_item_name,
                     quantity |-> kwargs.quantity,
                     unit_price |-> kwargs.unit_price]]
    ELSE [ok |-> FALSE, value |-> "TypeError"]

\* CustomerOrder.to_dict as create_order stores it (the timestamps left
\* out); total_amount is computed in __post_init__
RECURSIVE total_amount(_)
total_amount(items) ==
    IF items = <<>> THEN 0
    ELSE Head(items).unit_price * Head(items).quantity + total_amount(Tail(items))

CustomerOrder(id, ud, items) ==
    [id |-> id,
     customer_phone |-> ud.customer_phone, customer_name |-> ud.customer_name,
     items |-> items, status |-> "pending", total_amount |-> total_amount(items),
     payment_method |-> ud.payment_method,
     special_instructions |-> ud.special_instructions, call_id |-> ud.call_id]

\* collection.document(doc.id).set(doc): the document with that id is
\* replaced, or created when there is none
set_document(docs, doc) ==
    IF \E i \in 1..Len(docs) : docs[i].id = doc.id
    THEN [i \in 1..Len(docs) |-> IF docs[i].id = doc.id THEN doc ELSE docs[i]]
    ELSE Append(docs, doc)

\* FirebaseManager._update_customer_info: a write of its own to the customers
\* collection; it catches whatever the write raises.  A new customer
\* document carries no loyalty_points, which readers take as 0.
update_customer_info(up, store, phone, name) ==
    IF ~up THEN store
    ELSE IF \E c \in store.customers : c.phone = phone
    THEN [store EXCEPT !.customers =
            { IF c.phone = phone
              THEN [c EXCEPT !.name = name, !.total_orders = @ + 1]
              ELSE c : c \in @ }]
    ELSE [store EXCEPT !.customers =
            @ \cup { [phone |-> phone, name |-> name, loyalty_points |-> 0,
                      total_orders |-> 1] }]

\* FirebaseManager.create_order: sets the order document, then updates the
\* customer record in a second write; an exception of the first write is
\* caught and reported as False, one of the second is swallowed by
\* _update_customer_info.  The analytics coroutine is created and never
\* awaited, so it writes nothing.
\* up: the orders write goes through; up_customers: the customers write does
create_order(up, up_customers, order) ==
    IF ~up
    THEN [returned |-> FALSE, store |-> firebase]
    ELSE [returned |-> TRUE,
          store |-> update_customer_info(up_customers,
                        [firebase EXCEPT !.orders = set_document(@, order)],
                        order.customer_phone, order.customer_name)]

\* the document save_reservation builds from UserData (the uuid and the
\* timestamp left out)
reservation_data(ud) ==
    [customer_name |-> ud.customer_name, customer_phone |-> ud.customer_phone,
     reservation_date |-> ud.reservation_date,
     reservation_time |-> ud.reservation_time, party_size |-> ud.party_size,
     status |-> "confirmed", call_id |-> ud.call_id]

\* FirebaseManager.save_reservation: adds the reservation document.  self.db
\* is the synchronous Firestore client, so awaiting the result of add() raises
\* inside the try block once the document is written: False is returned
\* whether or not the write went through.
save_reservation(up, ud) ==
    [returned |-> FALSE,
     store |-> IF up
               THEN [firebase EXCEPT !.reservations = Append(@, reservation_data(ud))]
               ELSE firebase]

(***************************************************************************)
(* Transcripts.  A chat item has an id, a type (message, function_call,    *)
(* function_call_output) and, for a message, a role.                       *)
(***************************************************************************)
ToolTypes == {"function_call", "function_call_output"}

\* the filter with its system-message test made unconditional
valid_item_dropping_system(item, keep_system_message, keep_function_call) ==
    IF item.type = "message" /\ item.role = "system"
    THEN FALSE
    ELSE IF ~keep_function_call /\ item.type \in ToolTypes
    THEN FALSE
    ELSE TRUE

\* a filter that lets every item through
valid_item_keeping_all(item, keep_system_message, keep_function_call) == TRUE

\* _valid_item, the filter inside _truncate_chat_ctx
valid_item(item, keep_system_message, keep_function_call) ==
    IF ~keep_system_message /\ item.type = "message" /\ item.role = "system"
    THEN FALSE
    ELSE IF ~keep_function_call /\ item.type \in ToolTypes
    THEN FALSE
    ELSE TRUE

\* a scan from the oldest item forward that stops at the same count
RECURSIVE scan_forward(_, _, _, _, _)
scan_forward(items, new_items, keep_last_n_messages, keep_system_message, keep_function_call) ==
    IF items = <<>> THEN new_items
    ELSE LET item == Head(items)
             appended == IF valid_item(item, keep_system_message, keep_function_call)
                         THEN Append(new_items, item) ELSE new_items
         IN  IF Len(appended) >= keep_last_n_messages THEN appended
             ELSE scan_forward(Tail(items), appended, keep_last_n_messages,
                               keep_system_message, keep_function_call)

\* the loop of _truncate_chat_ctx over reversed(items), followed by the
\* [::-1]: items holds what the loop has not visited yet, new_items what it
\* has kept, already in chronological order.  The length test runs after
\* every visited item, kept or not.
RECURSIVE scan_reversed(_, _, _, _, _)
scan_reversed(items, new_items, keep_last_n_messages, keep_system_message, keep_function_call) ==
    IF items = <<>> THEN new_items
    ELSE LET item == items[Len(items)]
             appended == IF valid_item(item, keep_system_message, keep_function_call)
                         THEN <<item>> \o new_items ELSE new_items
         IN  IF Len(appended) >= keep_last_n_messages THEN appended
             ELSE scan_reversed(SubSeq(items, 1, Len(items) - 1), appended,
                                keep_last_n_messages, keep_system_message,
                                keep_function_call)

\* the window left as the scan produced it
keep_orphaned(new_items) == new_items

\* the while loop that pops function calls and outputs off the front
RECURSIVE drop_orphaned(_)
drop_orphaned(new_items) ==
    IF new_items # <<>> /\ Head(new_items).type \in ToolTypes
    THEN drop_orphaned(Tail(new_items))
    ELSE new_items

\* BaseRestaurantAgent._truncate_chat_ctx
truncate_chat_ctx(items, keep_last_n_messages, keep_system_message, keep_function_call) ==
    drop_orphaned(scan_reversed(items, <<>>, keep_last_n_messages,
                                keep_system_message, keep_function_call))

\* a merge that appends the whole source
merge_appending_all(target, source) == target \o source

\* the merge on_enter performs: the source items whose id is not among the
\* target's are appended to the target
merge(target, source) ==
    LET existing_ids == { target[i].id : i \in 1..Len(target) }
    IN  target \o SelectSeq(source, LAMBDA item : item.id \notin existing_ids)

\* the id a newly created chat item gets: one no item in sight has
new_item_id(items, others) ==
    LET ids == {0} \cup { items[i].id : i \in 1..Len(items) }
                   \cup { others[i].id : i \in 1..Len(others) }
    IN  1 + CHOOSE n \in ids : \A m \in ids : m <= n

\* what on_enter did, for a tool invocation that entered no agent
NotEntered ==
    [ran |-> FALSE, items |-> <<>>, merged |-> FALSE, window |-> <<>>,
     prev_items |-> <<>>, directives |-> 0, greetings |-> 0]

\* BaseRestaurantAgent.on_enter.  items: the chat items the agent was
\* constructed with; prev_items: the chat items of the agent being left,
\* which userdata.prev_agent refers to when it is set.
BaseRestaurantAgent_on_enter(items, ud, prev_items) ==
    LET has_prev == ud.prev_agent # "None"
        items_copy == IF has_prev
                      THEN truncate_chat_ctx(prev_items, 6, FALSE, TRUE)
                      ELSE <<>>
        merged == IF has_prev THEN merge(items, items_copy) ELSE items
        directive == [id |-> new_item_id(merged, prev_items),
                      type |-> "message", role |-> "system"]
    IN  [ran |-> TRUE, items |-> Append(merged, directive), merged |-> has_prev,
         window |-> items_copy, prev_items |-> prev_items,
         directives |-> 1, greetings |-> 1]

\* ConfirmationAgent.on_enter: overrides the base method without calling it;
\* each of its three branches requests one reply and nothing else
ConfirmationAgent_on_enter(items, ud, prev_items) ==
    [ran |-> TRUE, items |-> items, merged |-> FALSE, window |-> <<>>,
     prev_items |-> prev_items, directives |-> 0, greetings |-> 1]

\* the on_enter of the agent class that is entered
on_enter(agent, items, ud, prev_items) ==
    IF agent = "Confirmation"
    THEN ConfirmationAgent_on_enter(items, ud, prev_items)
    ELSE BaseRestaurantAgent_on_enter(items, ud, prev_items)

(***************************************************************************)
(* The per-turn hook: on_user_turn_completed and _lookup_customer_info.    *)
(***************************************************************************)
\* an optional pattern element at pos: taken (one character of chars) or
\* skipped; 0 stands for a failed match
opt(text, pos, chars, take) ==
    IF pos = 0 THEN 0
    ELSE IF ~take THEN pos
    ELSE IF pos <= Len(text) /\ text[pos] \in chars THEN pos + 1
    ELSE 0

\* [0-9]{n} at pos
digits(text, pos, n) ==
    IF pos = 0 THEN 0
    ELSE IF pos + n - 1 <= Len(text) /\ \A k \in pos..(pos + n - 1) : isdigit(text[k])
    THEN pos + n
    ELSE 0

PhoneSeparators == {"-", ".", " "}

\* the phone pattern \+?1?[-.\s]?\(?[0-9]{3}\)?[-.\s]?[0-9]{3}[-.\s]?[0-9]{4}
\* tried at position i with the optional elements taken as o says: the
\* position after the match, or 0
phone_match_end(text, i, o) ==
    digits(text,
      opt(text,
        digits(text,
          opt(text,
            opt(text,
              digits(text,
                opt(text,
                  opt(text,
                    opt(text,
                      opt(text, i, {"+"}, o[1]),
                      {"1"}, o[2]),
                    PhoneSeparators, o[3]),
                  {"("}, o[4]),
                3),
              {")"}, o[5]),
            PhoneSeparators, o[6]),
          3),
        PhoneSeparators, o[7]),
      4)

\* the order in which backtracking tries the optional elements: present
\* before absent, the earlier element deciding
tried_before(a, b) ==
    \E k \in 1..7 : a[k] /\ ~b[k] /\ \A j \in 1..(k - 1) : a[j] = b[j]

\* re.findall(phone pattern, text)[:1]: the leftmost match, as the first
\* successful choice of optional elements delimits it; <<>> when none
phone_matches(text) ==
    LET ways(i) == { o \in [1..7 -> BOOLEAN] : phone_match_end(text, i, o) # 0 }
        starts == { i \in 1..Len(text) : ways(i) # {} }
    IN  IF starts = {} THEN <<>>
        ELSE LET i == CHOOSE i \in starts : \A j \in starts : i <= j
                 o == CHOOSE o \in ways(i) :
                         \A q \in ways(i) \ {o} : tried_before(o, q)
             IN  << SubSeq(text, i, phone_match_end(text, i, o) - 1) >>

\* whether re.findall(email pattern, text) finds anything
email_matches(text) ==
    \E i \in 1..Len(text), j \in 1..Len(text) :
        i <= j /\ email_pattern(SubSeq(text, i, j))

\* _lookup_customer_info without its email branch
lookup_customer_info_phone_only(message_text, up) ==
    LET found == phone_matches(message_text)
        customer_history == IF found # <<>>
                            THEN get_customer_order_history(up, found[1])
                            ELSE <<>>
        preferences == IF customer_history # <<>>
                       THEN get_customer_preferences(up, found[1]) ELSE {}
    IN  [info_parts |->
            (IF customer_history # <<>>
             THEN << <<"Found previous orders", Len(customer_history), found[1]>> >>
             ELSE <<>>)
            \o (IF preferences # {}
                THEN << <<"Customer preferences", preferences>> >> ELSE <<>>),
         lookups |-> found]

\* BaseRestaurantAgent._lookup_customer_info: the parts of the text it
\* returns and the phone it looked up.  The order history is asked for under
\* the phone as it was said; the store reports its own failures as [].
lookup_customer_info(message_text, up) ==
    LET found == phone_matches(message_text)
        customer_history == IF found # <<>>
                            THEN get_customer_order_history(up, found[1])
                            ELSE <<>>
        preferences == IF customer_history # <<>>
                       THEN get_customer_preferences(up, found[1]) ELSE {}
    IN  [info_parts |->
            (IF customer_history # <<>>
             THEN << <<"Found previous orders", Len(customer_history), found[1]>> >>
             ELSE <<>>)
            \o (IF preferences # {}
                THEN << <<"Customer preferences", preferences>> >> ELSE <<>>)
            \o (IF email_matches(message_text)
                THEN << <<"Email provided">> >> ELSE <<>>),
         lookups |-> found]

\* BaseRestaurantAgent.on_user_turn_completed: the chat items of the turn
\* context once the hook is done
on_user_turn_completed(turn_ctx, message_text, up) ==
    LET customer_info == lookup_customer_info(message_text, up).info_parts
    IN  IF customer_info # <<>>
        THEN Append(turn_ctx, [id |-> new_item_id(turn_ctx, chat_ctx.session),
                               type |-> "message", role |-> "assistant"])
        ELSE turn_ctx

(***************************************************************************)
(* Agents and their tools.                                                 *)
(***************************************************************************)
\* the tools every agent is constructed with (BaseRestaurantAgent.__init__)
SharedTools ==
    {"update_customer_name", "update_customer_phone", "update_customer_email",
     "add_special_instructions", "get_customer_summary", "check_loyalty_status",
     "end_call"}

\* the tools of the active agent; once end_call has deleted the room the
\* session is over and no tool can be invoked
ToolsOf(agent) ==
    CASE agent = "IntentRouter" ->
            SharedTools \cup {"intent_is_order", "intent_is_reservation"}
      [] agent = "OrderTaking" ->
            SharedTools \cup {"add_item", "set_payment_method", "finalize_order"}
      [] agent = "ReservationTaking" ->
            SharedTools \cup {"set_reservation_details", "confirm_reservation"}
      [] agent = "Confirmation" ->
            SharedTools \cup {"confirm_order", "confirm_reservation",
                              "request_correction", "cancel_request"}
      [] OTHER -> {}

\* UserData as entrypoint constructs it: the dataclass defaults, the call id
\* and intent="incoming_call"
InitUserData ==
    [customer_name |-> <<>>, customer_phone |-> <<>>, customer_email |-> <<>>,
     current_order |-> <<>>, order_total |-> 0, special_instructions |-> "",
     reservation_date |-> "", reservation_time |-> "", party_size |-> 0,
     payment_method |-> "cash", call_id |-> "room-1", intent |-> "incoming_call",
     prev_agent |-> "None", order_history |-> <<>>, customer_preferences |-> {},
     loyalty_points |-> 0, authenticated |-> FALSE]

Init ==
    /\ role = "IntentRouter"
    /\ userdata = InitUserData
    /\ firebase = [orders |-> <<>>, reservations |-> <<>>,
                   customers |-> CustomerDocs,
                   menu_items |-> load_menu(TRUE, SeedMenu)]
    /\ last = [agent |-> "IntentRouter", tool |-> "session_start", args |-> <<>>,
               result |-> NoOp, commits |-> <<>>, store_up |-> TRUE,
               on_enter |-> NotEntered, lookups |-> <<>>]
    /\ chat_ctx = [agent |-> BaseRestaurantAgent_on_enter(<<>>, InitUserData, <<>>).items,
                   session |-> <<>>]

(***************************************************************************)
(* Shared tools (shared_tools.py).                                         *)
(***************************************************************************)
update_customer_name(name) ==
    Outcome(Advisory("Got it! I have your name"),
            [userdata EXCEPT !.customer_name = title(strip(name))],
            firebase, <<>>)

\* update_customer_phone clearing the history snapshot when nothing is found
update_customer_phone_clearing_history(phone, up) ==
    LET clean == clean_phone(phone)
        customer_data == get_customer_data(up, clean)
    IN  [Outcome(Advisory("Phone number updated"),
                 [userdata EXCEPT !.customer_phone = clean,
                                  !.customer_preferences = customer_data.preferences,
                                  !.loyalty_points = customer_data.loyalty_points,
                                  !.order_history = customer_data.recent_orders],
                 firebase, <<>>)
         EXCEPT !.lookups = <<clean>>]

\* update_customer_phone taking the name of the record whenever it has one
update_customer_phone_taking_name(phone, up) ==
    LET clean == clean_phone(phone)
        customer_data == get_customer_data(up, clean)
    IN  IF customer_data.found
        THEN [Outcome(Advisory("Welcome back"),
                     [userdata EXCEPT
                        !.customer_phone = clean,
                        !.customer_preferences = customer_data.preferences,
                        !.loyalty_points = customer_data.loyalty_points,
                        !.order_history = customer_data.recent_orders,
                        !.customer_name =
                            IF customer_data.name # <<>> THEN customer_data.name ELSE @],
                     firebase, <<>>)
              EXCEPT !.lookups = <<clean>>]
        ELSE [Outcome(Advisory("Phone number updated"),
                     [userdata EXCEPT !.customer_phone = clean],
                     firebase, <<>>)
              EXCEPT !.lookups = <<clean>>]

\* up: whether the store answers the history lookup of this call; the one
\* call of get_customer_data is the lookup
update_customer_phone(phone, up) ==
    LET clean == clean_phone(phone)
        customer_data == get_customer_data(up, clean)
    IN  IF customer_data.found
        THEN [Outcome(Advisory("Welcome back"),
                     [userdata EXCEPT
                        !.customer_phone = clean,
                        !.customer_preferences = customer_data.preferences,
                        !.loyalty_points = customer_data.loyalty_points,
                        !.order_history = customer_data.recent_orders,
                        !.customer_name =
                            IF @ = <<>> /\ customer_data.name # <<>>
                            THEN customer_data.name ELSE @],
                     firebase, <<>>)
              EXCEPT !.lookups = <<clean>>]
        ELSE [Outcome(Advisory("Phone number updated"),
                     [userdata EXCEPT !.customer_phone = clean],
                     firebase, <<>>)
              EXCEPT !.lookups = <<clean>>]

\* end_call that says goodbye and leaves the room in place
end_call_keeping_room == Outcome(NoOp, userdata, firebase, <<>>)

\* update_customer_email storing whatever it is given
update_customer_email_unvalidated(email) ==
    Outcome(Advisory("Email updated"),
            [userdata EXCEPT !.customer_email = lower(strip(email))],
            firebase, <<>>)

update_customer_email(email) ==
    IF email_pattern(strip(email))
    THEN Outcome(Advisory("Email updated"),
                 [userdata EXCEPT !.customer_email = lower(strip(email))],
                 firebase, <<>>)
    ELSE Outcome(Advisory("That does not look like a valid email address."),
                 userdata, firebase, <<>>)

add_special_instructions(instructions) ==
    Outcome(Advisory("Added special instructions"),
            [userdata EXCEPT !.special_instructions = instructions],
            firebase, <<>>)

\* UserData.summarize: the parts of the digest, in the order they are joined
\* summarize with the reservation part emitted as soon as a date is set
summarize_reservation_on_date(ud) ==
    LET summary_parts ==
            (IF ud.customer_name # <<>>
             THEN << <<"Customer", ud.customer_name>> >> ELSE <<>>)
            \o (IF ud.customer_phone # <<>>
                THEN << <<"Phone", ud.customer_phone>> >> ELSE <<>>)
            \o (IF ud.current_order # <<>>
                THEN << <<"Current order", Len(ud.current_order), ud.order_total>> >>
                ELSE <<>>)
            \o (IF ud.reservation_date # ""
                THEN << <<"Reservation", ud.reservation_date, ud.reservation_time,
                          ud.party_size>> >>
                ELSE <<>>)
            \o (IF ud.order_history # <<>>
                THEN << <<"Previous orders", Len(ud.order_history)>> >> ELSE <<>>)
            \o (IF ud.loyalty_points > 0
                THEN << <<"Loyalty points", ud.loyalty_points>> >> ELSE <<>>)
    IN  IF summary_parts # <<>> THEN summary_parts
        ELSE << <<"New customer, no prior data">> >>

summarize(ud) ==
    LET summary_parts ==
            (IF ud.customer_name # <<>>
             THEN << <<"Customer", ud.customer_name>> >> ELSE <<>>)
            \o (IF ud.customer_phone # <<>>
                THEN << <<"Phone", ud.customer_phone>> >> ELSE <<>>)
            \o (IF ud.current_order # <<>>
                THEN << <<"Current order", Len(ud.current_order), ud.order_total>> >>
                ELSE <<>>)
            \o (IF ud.reservation_date # "" /\ ud.reservation_time # ""
                THEN << <<"Reservation", ud.reservation_date, ud.reservation_time,
                          ud.party_size>> >>
                ELSE <<>>)
            \o (IF ud.order_history # <<>>
                THEN << <<"Previous orders", Len(ud.order_history)>> >> ELSE <<>>)
            \o (IF ud.loyalty_points > 0
                THEN << <<"Loyalty points", ud.loyalty_points>> >> ELSE <<>>)
    IN  IF summary_parts # <<>> THEN summary_parts
        ELSE << <<"New customer, no prior data">> >>

get_customer_summary ==
    Outcome(Advisory(summarize(userdata)), userdata, firebase, <<>>)

check_loyalty_status ==
    IF userdata.loyalty_points > 0
    THEN Outcome(Advisory("You have loyalty points available!"),
                 userdata, firebase, <<>>)
    ELSE Outcome(Advisory("You do not have any loyalty points yet"),
                 userdata, firebase, <<>>)

\* BaseRestaurantAgent.end_call: says goodbye and deletes the room
end_call ==
    [Outcome(NoOp, userdata, firebase, <<>>) EXCEPT !.room_deleted = TRUE]

(***************************************************************************)
(* IntentClassifierAgent.                                                  *)
(***************************************************************************)
\* OrderAgent.__init__ reads the menu text for its instructions
OrderAgent_init == get_menu_text(firebase.menu_items)

\* the intent is written first; an exception raised while the OrderAgent is
\* constructed leaves the tool uncaught
intent_is_order ==
    IF OrderAgent_init.ok
    THEN Outcome(Handoff("OrderTaking"), [userdata EXCEPT !.intent = "order"],
                 firebase, <<>>)
    ELSE Outcome(Raised(OrderAgent_init.value),
                 [userdata EXCEPT !.intent = "order"], firebase, <<>>)

\* intent_is_reservation constructing the order agent
intent_is_reservation_to_order ==
    Outcome(Handoff("OrderTaking"),
            [userdata EXCEPT !.intent = "reservation"], firebase, <<>>)

intent_is_reservation ==
    Outcome(Handoff("ReservationTaking"),
            [userdata EXCEPT !.intent = "reservation"], firebase, <<>>)

(***************************************************************************)
(* OrderAgent.                                                             *)
(***************************************************************************)
OrderAgent_handoff_if_done(ud) ==
    IF ud.customer_name # <<>> /\ ud.customer_phone # <<>> /\ ud.current_order # <<>>
    THEN Advisory("You may now confirm the order.")
    ELSE NoOp

add_item(item, quantity) ==
    LET ud == [userdata EXCEPT
                 !.current_order = Append(@, [item |-> item, quantity |-> quantity])]
    IN  Outcome(OrderAgent_handoff_if_done(ud), ud, firebase, <<>>)

set_payment_method(method) ==
    LET ud == [userdata EXCEPT !.payment_method = method]
    IN  Outcome(OrderAgent_handoff_if_done(ud), ud, firebase, <<>>)

\* finalize_order that hands off only once the readiness check passes
finalize_order_when_ready ==
    IF OrderAgent_handoff_if_done(userdata).kind = "Advisory"
    THEN Outcome(Handoff("Confirmation"), userdata, firebase, <<>>)
    ELSE Outcome(Advisory("I still need a few details."), userdata, firebase, <<>>)

\* finalize_order handing the next agent a fresh session state
finalize_order_fresh_userdata ==
    Outcome(Handoff("Confirmation"), [InitUserData EXCEPT !.intent = userdata.intent],
            firebase, <<>>)

finalize_order ==
    Outcome(Handoff("Confirmation"), userdata, firebase, <<>>)

(***************************************************************************)
(* ReservationAgent.                                                       *)
(***************************************************************************)
ReservationAgent_handoff_if_done(ud) ==
    IF /\ ud.customer_name # <<>>
       /\ ud.customer_phone # <<>>
       /\ ud.reservation_date # ""
       /\ ud.reservation_time # ""
       /\ ud.party_size > 0
    THEN Advisory("You can now use confirm_reservation to save this.")
    ELSE NoOp

set_reservation_details(date, time, party_size) ==
    LET ud == [userdata EXCEPT !.reservation_date = date,
                               !.reservation_time = time,
                               !.party_size = party_size]
    IN  Outcome(ReservationAgent_handoff_if_done(ud), ud, firebase, <<>>)

\* the reservation agent's confirm_reservation writing the draft itself
ReservationAgent_confirm_reservation_saving ==
    Outcome(Handoff("Confirmation"), userdata, save_reservation(TRUE, userdata).store,
            << [op |-> "save_reservation", doc |-> reservation_data(userdata)] >>)

ReservationAgent_confirm_reservation ==
    Outcome(Handoff("Confirmation"), userdata, firebase, <<>>)

(***************************************************************************)
(* ConfirmationAgent.                                                      *)
(***************************************************************************)
\* the completeness test at the head of confirm_order
order_complete(ud) ==
    ud.customer_name # <<>> /\ ud.customer_phone # <<>> /\ ud.current_order # <<>>

\* the keyword arguments confirm_order passes to OrderItem for one line item
order_item_kwargs(item_data) ==
    [menu_item_id |-> item_data.item, quantity |-> item_data.quantity,
     unit_price |-> 0, modifications |-> <<>>]

\* up, up_customers: whether the store accepts the writes of this call;
\* order_id: what uuid.uuid4() returns in this call
confirm_order(up, up_customers, order_id) ==
    IF ~order_complete(userdata)
    THEN Outcome(Advisory(OrderRefusalText), userdata, firebase, <<>>)
    ELSE LET built == [i \in 1..Len(userdata.current_order) |->
                          OrderItem(order_item_kwargs(userdata.current_order[i]))]
         IN  IF \E i \in 1..Len(built) : ~built[i].ok
             THEN \* the exception lands in the except clause
                  Outcome(Advisory(ApologyText), userdata, firebase, <<>>)
             ELSE LET order == CustomerOrder(order_id, userdata,
                                    [i \in 1..Len(built) |-> built[i].value])
                      written == create_order(up, up_customers, order)
                  IN  Outcome(Advisory(OrderSuccessText), userdata, written.store,
                              << [op |-> "create_order", doc |-> order] >>)

\* the completeness test without its party-size conjunct
reservation_complete_ignoring_party_size(ud) ==
    /\ ud.customer_name # <<>>
    /\ ud.customer_phone # <<>>
    /\ ud.reservation_date # ""
    /\ ud.reservation_time # ""

\* the completeness test at the head of ConfirmationAgent.confirm_reservation
reservation_complete(ud) ==
    /\ ud.customer_name # <<>>
    /\ ud.customer_phone # <<>>
    /\ ud.reservation_date # ""
    /\ ud.reservation_time # ""
    /\ ud.party_size > 0

\* confirm_reservation that returns the intent classifier once it has saved
ConfirmationAgent_confirm_reservation_then_router(up) ==
    IF ~reservation_complete(userdata)
    THEN Outcome(Advisory(ReservationRefusalText), userdata, firebase, <<>>)
    ELSE LET written == save_reservation(up, userdata)
         IN  Outcome(Handoff("IntentRouter"), userdata, written.store,
                     << [op |-> "save_reservation", doc |-> reservation_data(userdata)] >>)

ConfirmationAgent_confirm_reservation(up) ==
    IF ~reservation_complete(userdata)
    THEN Outcome(Advisory(ReservationRefusalText), userdata, firebase, <<>>)
    ELSE LET written == save_reservation(up, userdata)
         IN  Outcome(Advisory(ReservationSuccessText), userdata, written.store,
                     << [op |-> "save_reservation", doc |-> reservation_data(userdata)] >>)

\* field_mapping of request_correction
field_mapping == {"name", "phone", "email", "date", "time", "party_size"}

request_correction(field, new_value) ==
    IF field \notin field_mapping
    THEN Outcome(Advisory("Just let me know what you would like to change"),
                 userdata, firebase, <<>>)
    ELSE IF field = "party_size" /\ ~int(new_value).ok
    THEN Outcome(Raised("ValueError"), userdata, firebase, <<>>)
    ELSE LET ud ==
                 CASE field = "name" -> [userdata EXCEPT !.customer_name = new_value]
                   [] field = "phone" -> [userdata EXCEPT !.customer_phone = new_value]
                   [] field = "email" -> [userdata EXCEPT !.customer_email = new_value]
                   [] field = "date" -> [userdata EXCEPT !.reservation_date = new_value]
                   [] field = "time" -> [userdata EXCEPT !.reservation_time = new_value]
                   [] field = "party_size" ->
                        [userdata EXCEPT !.party_size = int(new_value).value]
         IN  Outcome(Advisory("Got it, changed"), ud, firebase, <<>>)

\* cancel_request handing the caller back to the intent classifier
cancel_request_to_router ==
    Outcome(Handoff("IntentRouter"), userdata, firebase, <<>>)

cancel_request ==
    Outcome(Advisory("No problem! What else can I help you with?"),
            userdata, firebase, <<>>)

(***************************************************************************)
(* Tool invocations: the model driving the session picks a tool of the     *)
(* active agent and its arguments; the session applies what the tool       *)
(* returns.                                                                *)
(***************************************************************************)
Invoke(tool, args, out, up) ==
    /\ tool \in ToolsOf(role)
    /\ userdata' = out.userdata
    /\ firebase' = out.firebase
    /\ role' = IF out.room_deleted THEN "EndCall" ELSE NextAgent(out.result)
    /\ LET entered == IF out.result.kind = "Handoff"
                       THEN on_enter(out.result.value, chat_ctx.session,
                                     out.userdata, chat_ctx.agent)
                       ELSE NotEntered
       IN  /\ chat_ctx' = IF entered.ran
                           THEN [chat_ctx EXCEPT !.agent = entered.items]
                           ELSE chat_ctx
           /\ last' = [agent |-> role, tool |-> tool, args |-> args,
                       result |-> out.result, commits |-> out.commits,
                       store_up |-> up, on_enter |-> entered,
                       lookups |-> out.lookups]

UpdateCustomerName ==
    \E name \in NameArgs :
        Invoke("update_customer_name", <<name>>, update_customer_name(name), TRUE)

UpdateCustomerPhone ==
    \E phone \in PhoneArgs, up \in BOOLEAN :
        Invoke("update_customer_phone", <<phone>>, update_customer_phone(phone, up), up)

UpdateCustomerEmail ==
    \E email \in EmailArgs :
        Invoke("update_customer_email", <<email>>, update_customer_email(email), TRUE)

AddSpecialInstructions ==
    \E instructions \in InstructionArgs :
        Invoke("add_special_instructions", <<instructions>>,
               add_special_instructions(instructions), TRUE)

GetCustomerSummary ==
    Invoke("get_customer_summary", <<>>, get_customer_summary, TRUE)

CheckLoyaltyStatus ==
    Invoke("check_loyalty_status", <<>>, check_loyalty_status, TRUE)

EndCall == Invoke("end_call", <<>>, end_call, TRUE)

IntentIsOrder == Invoke("intent_is_order", <<>>, intent_is_order, TRUE)

IntentIsReservation ==
    Invoke("intent_is_reservation", <<>>, intent_is_reservation, TRUE)

AddItem ==
    /\ Len(userdata.current_order) < MaxOrderLen
    /\ \E item \in ItemArgs, quantity \in Quantities :
        Invoke("add_item", <<item, quantity>>, add_item(item, quantity), TRUE)

SetPaymentMethod ==
    \E method \in PaymentMethods :
        Invoke("set_payment_method", <<method>>, set_payment_method(method), TRUE)

FinalizeOrder == Invoke("finalize_order", <<>>, finalize_order, TRUE)

SetReservationDetails ==
    \E date \in DateArgs, time \in TimeArgs, party_size \in PartySizes :
        Invoke("set_reservation_details", <<date, time, party_size>>,
               set_reservation_details(date, time, party_size), TRUE)

ReservationConfirmDraft ==
    /\ role = "ReservationTaking"
    /\ Invoke("confirm_reservation", <<>>, ReservationAgent_confirm_reservation, TRUE)

ConfirmOrder ==
    /\ role = "Confirmation"
    /\ \E up \in BOOLEAN, up_customers \in BOOLEAN, order_id \in OrderIds :
          Invoke("confirm_order", <<>>, confirm_order(up, up_customers, order_id), up)

ConfirmReservation ==
    /\ role = "Confirmation"
    /\ Len(firebase.reservations) < MaxReservations
    /\ \E up \in BOOLEAN :
        Invoke("confirm_reservation", <<>>, ConfirmationAgent_confirm_reservation(up), up)

\* the values a correction of a field is asked with
CorrectionValues(field) ==
    CASE field = "name" -> { <<"S", "a", "m">> }
      [] field = "phone" -> PhoneArgs
      [] field = "email" -> { <<"a", "@", "b", ".", "c", "o">> }
      [] field = "date" -> DateArgs
      [] field = "time" -> TimeArgs
      [] field = "party_size" -> PartySizeTexts
      [] OTHER -> {"12 Main St"}

RequestCorrection ==
    \E field \in field_mapping \cup {"address"} :
        \E new_value \in CorrectionValues(field) :
            Invoke("request_correction", <<field, new_value>>,
                   request_correction(field, new_value), TRUE)

CancelRequest == Invoke("cancel_request", <<>>, cancel_request, TRUE)

Next ==
    \/ UpdateCustomerName
    \/ UpdateCustomerPhone
    \/ UpdateCustomerEmail
    \/ AddSpecialInstructions
    \/ GetCustomerSummary
    \/ CheckLoyaltyStatus
    \/ EndCall
    \/ IntentIsOrder
    \/ IntentIsReservation
    \/ AddItem
    \/ SetPaymentMethod
    \/ FinalizeOrder
    \/ SetReservationDetails
    \/ ReservationConfirmDraft
    \/ ConfirmOrder
    \/ ConfirmReservation
    \/ RequestCorrection
    \/ CancelRequest

Spec == Init /\ [][Next]_vars

(***************************************************************************)
(* The phone tool alone, over every way of writing a number.               *)
(***************************************************************************)
SetPhone ==
    \E phone \in PhoneInputs, up \in BOOLEAN :
        Invoke("update_customer_phone", <<phone>>, update_customer_phone(phone, up), up)

PhoneNext == SetPhone

SpecPhone == Init /\ [][PhoneNext]_vars

(***************************************************************************)
(* The two phone normalisers side by side: the phone tool and the SIP      *)
(* handler's _normalize_phone, each on a number as written and on what it  *)
(* produced before.                                                        *)
(***************************************************************************)
\* the stored phone is passed through the phone tool again
SetStoredPhone ==
    \E up \in BOOLEAN :
        /\ userdata.customer_phone # <<>>
        /\ Invoke("update_customer_phone", <<userdata.customer_phone>>,
                  update_customer_phone(userdata.customer_phone, up), up)

\* handle_sip_call normalising a number of the call
NormalizePhone ==
    \E phone \in PhoneInputs :
        /\ last' = [agent |-> role, tool |-> "_normalize_phone", args |-> <<phone>>,
                    result |-> [kind |-> "Returned", phone |-> normalize_phone(phone)],
                    commits |-> <<>>, store_up |-> TRUE, on_enter |-> NotEntered,
                    lookups |-> <<>>]
        /\ UNCHANGED <<role, userdata, firebase, chat_ctx>>

\* the value _normalize_phone returned is normalised again
NormalizeReturned ==
    /\ last.tool = "_normalize_phone"
    /\ last' = [last EXCEPT !.args = <<last.result.phone>>,
                            !.result = [kind |-> "Returned",
                                        phone |-> normalize_phone(last.result.phone)]]
    /\ UNCHANGED <<role, userdata, firebase, chat_ctx>>

NormalizeNext == SetPhone \/ SetStoredPhone \/ NormalizePhone \/ NormalizeReturned

SpecNormalize == Init /\ [][NormalizeNext]_vars

(***************************************************************************)
(* The transcript functions alone, over bounded transcripts: one           *)
(* application to each input.                                              *)
(***************************************************************************)
\* the kinds of chat item: a user message, a system message, a function
\* call and a function call output
ItemKinds ==
    << [type |-> "message", role |-> "user"],
       [type |-> "message", role |-> "system"],
       [type |-> "function_call", role |-> ""],
       [type |-> "function_call_output", role |-> ""] >>

\* the transcript whose i-th item has id i and the kind kinds[i]
Transcript(kinds) ==
    [i \in DOMAIN kinds |->
        [id |-> i, type |-> ItemKinds[kinds[i]].type, role |-> ItemKinds[kinds[i]].role]]

\* every transcript of up to MaxMixedLen items of any kind, and the
\* transcripts of up to MaxPlainLen user messages
TranscriptInputs ==
    { Transcript(kinds) :
        kinds \in UNION { [1..n -> 1..Len(ItemKinds)] : n \in 0..MaxMixedLen } }
    \cup { Transcript([i \in 1..n |-> 1]) : n \in 0..MaxPlainLen }

\* the item with a given id; two copies of an item share its id
ItemOfId(id) ==
    [id |-> id, type |-> ItemKinds[((id - 1) % Len(ItemKinds)) + 1].type,
     role |-> ItemKinds[((id - 1) % Len(ItemKinds)) + 1].role]

\* the transcripts of up to MaxMergeLen items out of MaxMergeLen + 1, no item
\* twice in one transcript
MergeInputs ==
    { [i \in DOMAIN ids |-> ItemOfId(ids[i])] :
        ids \in { f \in UNION { [1..n -> 1..(MaxMergeLen + 1)] : n \in 0..MaxMergeLen } :
                    \A i, j \in DOMAIN f : i # j => f[i] # f[j] } }

Truncate ==
    \E items \in TranscriptInputs, keep_last_n_messages \in 0..MaxKeepLast,
       keep_system_message \in BOOLEAN, keep_function_call \in BOOLEAN :
        /\ last.tool = "session_start"
        /\ last' = [agent |-> role, tool |-> "_truncate_chat_ctx",
                    args |-> <<items, keep_last_n_messages, keep_system_message,
                               keep_function_call>>,
                    result |-> [kind |-> "Value",
                                value |-> truncate_chat_ctx(items, keep_last_n_messages,
                                              keep_system_message, keep_function_call)],
                    commits |-> <<>>, store_up |-> TRUE, on_enter |-> NotEntered, lookups |-> <<>>]
        /\ UNCHANGED <<role, userdata, firebase, chat_ctx>>

Merge ==
    \E target \in MergeInputs, source \in MergeInputs :
        /\ last.tool = "session_start"
        /\ last' = [agent |-> role, tool |-> "merge", args |-> <<target, source>>,
                    result |-> [kind |-> "Value", value |-> merge(target, source)],
                    commits |-> <<>>, store_up |-> TRUE, on_enter |-> NotEntered, lookups |-> <<>>]
        /\ UNCHANGED <<role, userdata, firebase, chat_ctx>>

TranscriptNext == Truncate \/ Merge

SpecTranscript == Init /\ [][TranscriptNext]_vars

(***************************************************************************)
(* Handoffs alone, from an intent router that has already talked to the    *)
(* caller, over every state of the menu cache.                             *)
(***************************************************************************)
\* a menu document written without a description
MalformedMenu == { [name |-> "Tea", price |-> 250, category |-> "beverages"] }

\* the menu cache after start-up: loaded, not loaded, loaded with a document
\* that lacks a field get_menu_text reads
MenuStates ==
    { load_menu(TRUE, SeedMenu), load_menu(FALSE, SeedMenu),
      load_menu(TRUE, MalformedMenu) }

\* the chat items of a conversation: turn 1 is a caller message, turn 2 a
\* tool call with its output
RECURSIVE Conversation(_, _)
Conversation(turns, next_id) ==
    IF turns = <<>> THEN <<>>
    ELSE IF Head(turns) = 1
    THEN << [id |-> next_id, type |-> "message", role |-> "user"] >>
         \o Conversation(Tail(turns), next_id + 1)
    ELSE << [id |-> next_id, type |-> "function_call", role |-> ""],
            [id |-> next_id + 1, type |-> "function_call_output", role |-> ""] >>
         \o Conversation(Tail(turns), next_id + 2)

Conversations ==
    { Conversation(turns, 2) : turns \in UNION { [1..n -> 1..2] : n \in 0..MaxTurns } }

\* what the session history holds of a conversation: every item, or the
\* messages only (the framework keeps one or the other, by version)
SessionHistories(conversation) ==
    { conversation, SelectSeq(conversation, LAMBDA item : item.type = "message") }

InitHandoff ==
    /\ role = "IntentRouter"
    /\ userdata = InitUserData
    /\ \E menu_items \in MenuStates :
          firebase = [orders |-> <<>>, reservations |-> <<>>,
                      customers |-> CustomerDocs, menu_items |-> menu_items]
    /\ last = [agent |-> "IntentRouter", tool |-> "session_start", args |-> <<>>,
               result |-> NoOp, commits |-> <<>>, store_up |-> TRUE,
               on_enter |-> NotEntered, lookups |-> <<>>]
    /\ \E conversation \in Conversations :
          \E history \in SessionHistories(conversation) :
             chat_ctx = [agent |-> BaseRestaurantAgent_on_enter(<<>>, InitUserData, <<>>).items
                                   \o conversation,
                         session |-> history]

HandoffNext ==
    \/ IntentIsOrder
    \/ IntentIsReservation
    \/ FinalizeOrder
    \/ ReservationConfirmDraft

SpecHandoff == InitHandoff /\ [][HandoffNext]_vars

(***************************************************************************)
(* FirebaseManager.create_order alone, over orders as confirm_order is      *)
(* meant to build them, each write free to fail.                           *)
(***************************************************************************)
NewPhone == clean_phone(DigitString("1", 11))

OrderInputs ==
    { CustomerOrder(id, [InitUserData EXCEPT !.customer_name = <<"S", "a", "m">>,
                                             !.customer_phone = phone],
                    << [menu_item_id |-> "Coffee", menu_item_name |-> "Coffee",
                        quantity |-> 1, unit_price |-> 399] >>) :
        id \in OrderIds, phone \in {KnownPhone, NewPhone} }

CreateOrder ==
    \E order \in OrderInputs, up \in BOOLEAN, up_customers \in BOOLEAN :
        /\ Len(firebase.orders) < MaxStoredOrders
        /\ \A c \in firebase.customers : c.total_orders <= MaxStoredOrders
        /\ firebase' = create_order(up, up_customers, order).store
        /\ last' = [agent |-> role, tool |-> "create_order", args |-> <<order>>,
                    result |-> [kind |-> "Value",
                                value |-> create_order(up, up_customers, order).returned],
                    commits |-> <<>>, store_up |-> up, on_enter |-> NotEntered, lookups |-> <<>>]
        /\ UNCHANGED <<role, userdata, chat_ctx>>

StoreNext == CreateOrder

SpecStore == Init /\ [][StoreNext]_vars

(***************************************************************************)
(* Caller turns alone: the hook run on what the caller said.               *)
(***************************************************************************)
UtteranceInputs ==
    { <<"a", " ", "b">>,
      <<"+", "1", "5", "2", "3", "4", "5", "6", "7", "8", "9", "0">>,
      <<"a", " ", "+", "1", "5", "2", "3", "4", "5", "6", "7", "8", "9", "0">>,
      <<"5", "2", "3", "-", "4", "5", "6", "-", "7", "8", "9", "0">>,
      <<"(", "5", "2", "3", ")", " ", "4", "5", "6", "-", "7", "8", "9", "0">>,
      <<"5", "2", "3", "4", "5", "6", "7">>,
      <<"a", "@", "b", ".", "c", "o">>,
      <<"a", "@", "b">>,
      <<"+", "1", "5", "2", "3", "4", "5", "6", "7", "8", "9", "0", " ",
        "a", "@", "b", ".", "c", "o">> }

\* one caller turn: the hook runs on the turn context, then the framework
\* records the caller message in the agent's chat items and in the session
\* history
UserTurn ==
    \E message_text \in UtteranceInputs, up \in BOOLEAN :
        /\ Cardinality({ i \in 1..Len(chat_ctx.agent) :
                            chat_ctx.agent[i].role = "user" }) < MaxHookTurns
        /\ LET enriched == on_user_turn_completed(chat_ctx.agent, message_text, up)
               new_message == [id |-> new_item_id(enriched, chat_ctx.session),
                               type |-> "message", role |-> "user"]
           IN  chat_ctx' = [agent |-> Append(enriched, new_message),
                            session |-> Append(chat_ctx.session, new_message)]
        /\ last' = [agent |-> role, tool |-> "on_user_turn_completed",
                    args |-> <<message_text>>, result |-> NoOp, commits |-> <<>>,
                    store_up |-> up, on_enter |-> NotEntered,
                    lookups |-> lookup_customer_info(message_text, up).lookups]
        /\ UNCHANGED <<role, userdata, firebase>>

TurnNext == UserTurn

SpecTurn == Init /\ [][TurnNext]_vars

(***************************************************************************)
(* Session start: main.entrypoint run on a job.                            *)
(***************************************************************************)
\* the fields of the UserData dataclass
UserDataFields ==
    {"customer_name", "customer_phone", "customer_email", "current_order",
     "order_total", "special_instructions", "reservation_date", "reservation_time",
     "party_size", "payment_method", "credit_card_number", "credit_card_expiry",
     "credit_card_cvv", "call_id", "caller_number", "call_start_time", "intent",
     "prev_agent", "agents", "order_history", "customer_preferences",
     "loyalty_points", "authenticated", "session_id"}

\* the generated UserData.__init__: a keyword that names no field raises
UserData_init(kwargs) ==
    IF DOMAIN kwargs \subseteq UserDataFields
    THEN [kind |-> "Value",
          value |-> [InitUserData EXCEPT !.call_id = kwargs.call_id,
                                         !.intent = kwargs.intent]]
    ELSE Raised("TypeError")

\* RestaurantErrorHandler.handle_agent_error: the text it returns
handle_agent_error(error) ==
    IF error.type = "ConnectionError"
    THEN "I'm having trouble with my connection. Let me try to help you in a different way."
    ELSE IF error.type = "TimeoutError"
    THEN "Sorry, that's taking longer than expected. Could you repeat your request?"
    ELSE IF error.mentions = "openai"
    THEN "I'm having trouble processing that right now. Could you try asking in a different way?"
    ELSE IF error.mentions = "firebase"
    THEN "I'm having trouble saving that information. Don't worry, I can still help you."
    ELSE "I apologize, I'm having a small technical issue. How else can I help you today?"

NoError == [type |-> "None", mentions |-> "other"]

\* what session.start or the first generate_reply may raise
StartErrors ==
    {NoError} \cup [type : {"ConnectionError", "TimeoutError", "Exception"},
                    mentions : {"openai", "firebase", "other"}]

RoomNames == {"room-1", "room-2", "room-3"}

\* the job's sip attribute: missing, without a from_number, or with one
SipInputs == {"no sip", "no from_number", "+15234567890", "+15550001111", "5234567890"}

caller_number(sip) ==
    IF sip = "no sip" THEN "web_user"
    ELSE IF sip = "no from_number" THEN "unknown"
    ELSE sip

\* main.entrypoint: how the job ends up.  started says whether the agent
\* session is running when entrypoint is left, said is what the caller was
\* told about an error, handled is the text handle_agent_error returned.
entrypoint(config_valid, room_name, sip, start_error) ==
    IF ~config_valid
    THEN [result |-> Raised("ValueError"), userdata |-> userdata,
          started |-> FALSE, handled |-> "", said |-> ""]
    ELSE LET made == UserData_init([call_id |-> room_name,
                                    caller_number |-> caller_number(sip),
                                    agent_id |-> "restaurant-assistant",
                                    session_id |-> room_name,
                                    intent |-> "incoming_call"])
         IN  IF made.kind = "Error"
             THEN [result |-> made, userdata |-> userdata,
                   started |-> FALSE, handled |-> "", said |-> ""]
             ELSE IF start_error # NoError
             THEN [result |-> Raised(start_error.type), userdata |-> made.value,
                   started |-> FALSE, handled |-> handle_agent_error(start_error),
                   said |-> ""]
             ELSE [result |-> NoOp, userdata |-> made.value,
                   started |-> TRUE, handled |-> "", said |-> ""]

InitStart ==
    /\ role = "NoSession"
    /\ userdata = InitUserData
    /\ firebase = [orders |-> <<>>, reservations |-> <<>>,
                   customers |-> CustomerDocs,
                   menu_items |-> load_menu(TRUE, SeedMenu)]
    /\ last = [agent |-> "NoSession", tool |-> "job_assigned", args |-> <<>>,
               result |-> NoOp, commits |-> <<>>, store_up |-> TRUE,
               on_enter |-> NotEntered, lookups |-> <<>>]
    /\ chat_ctx = [agent |-> <<>>, session |-> <<>>]

Entrypoint ==
    \E config_valid \in BOOLEAN, room_name \in RoomNames, sip \in SipInputs,
       start_error \in StartErrors :
        /\ last.tool = "job_assigned"
        /\ LET out == entrypoint(config_valid, room_name, sip, start_error)
           IN  /\ role' = IF out.started THEN "IntentRouter" ELSE "NoSession"
               /\ userdata' = out.userdata
               /\ chat_ctx' = IF out.started
                               THEN [chat_ctx EXCEPT !.agent =
                                       BaseRestaurantAgent_on_enter(<<>>, out.userdata, <<>>).items]
                               ELSE chat_ctx
               /\ last' = [agent |-> role, tool |-> "entrypoint",
                           args |-> <<config_valid, room_name, sip, start_error>>,
                           result |-> out.result, commits |-> <<>>, store_up |-> TRUE,
                           on_enter |-> NotEntered, lookups |-> <<>>]
        /\ UNCHANGED firebase

StartNext == Entrypoint

SpecStart == InitStart /\ [][StartNext]_vars

(***************************************************************************)
(* Properties.                                                             *)
(*                                                                         *)
(* Every step of Next is a tool invocation and rewrites `last`, so a state *)
(* whose last.tool is t is the state right after an invocation of t, and   *)
(* in a step last' describes the invocation the step performs.             *)
(***************************************************************************)
ConfirmationCall(tool) == last.agent = "Confirmation" /\ last.tool = tool

\* the digits of s, in order (written out here, apart from the model's filter)
RECURSIVE StripNonDigits(_)
StripNonDigits(s) ==
    IF s = <<>> THEN <<>>
    ELSE (IF Head(s) \in {"0", "1", "2", "3", "4", "5", "6", "7", "8", "9"}
          THEN <<Head(s)>> ELSE <<>>) \o StripNonDigits(Tail(s))

\* the shapes the normalisation rule can produce: "+1" and ten digits, or a
\* bare digit string that the rule leaves alone
PhoneNormalForm(p) ==
    \/ /\ Len(p) = 12
       /\ p[1] = "+"
       /\ p[2] = "1"
       /\ StripNonDigits(SubSeq(p, 3, 12)) = SubSeq(p, 3, 12)
    \/ /\ StripNonDigits(p) = p
       /\ Len(p) # 10
       /\ ~(Len(p) = 11 /\ p[1] = "1")

\* C1: in Confirmation, with name, phone and at least one line item present
\* and the store accepting writes, one confirm-order invocation invokes the
\* order commit exactly once, carrying the session's name, phone and line
\* items, and returns the success Advisory.
C1_ConfirmOrderCommitsOnce ==
    ( /\ ConfirmationCall("confirm_order")
      /\ userdata.customer_name # <<>>
      /\ userdata.customer_phone # <<>>
      /\ userdata.current_order # <<>>
      /\ last.store_up )
    => /\ Len(last.commits) = 1
       /\ last.commits[1].op = "create_order"
       /\ last.commits[1].doc.customer_name = userdata.customer_name
       /\ last.commits[1].doc.customer_phone = userdata.customer_phone
       /\ Len(last.commits[1].doc.items) = Len(userdata.current_order)
       /\ \A i \in 1..Len(userdata.current_order) :
            /\ last.commits[1].doc.items[i].menu_item_id = userdata.current_order[i].item
            /\ last.commits[1].doc.items[i].quantity = userdata.current_order[i].quantity
       /\ Len(firebase.orders) >= 1
       /\ last.result = Advisory(OrderSuccessText)

\* C2: the confirm tools are a hard gate: confirm-order with name, phone or
\* line items missing, and confirm-reservation with name, phone, date or time
\* missing or a party size that is not > 0, invoke no store commit, leave the
\* store as it was, return the refusal Advisory and leave Confirmation the
\* active role.
C2_ConfirmToolsHardGate ==
    [][ /\ ( /\ last'.agent = "Confirmation"
             /\ last'.tool = "confirm_order"
             /\ \/ userdata.customer_name = <<>>
                \/ userdata.customer_phone = <<>>
                \/ userdata.current_order = <<>> )
           => /\ last'.commits = <<>>
              /\ firebase' = firebase
              /\ last'.result = Advisory(OrderRefusalText)
              /\ role' = "Confirmation"
        /\ ( /\ last'.agent = "Confirmation"
             /\ last'.tool = "confirm_reservation"
             /\ \/ userdata.customer_name = <<>>
                \/ userdata.customer_phone = <<>>
                \/ userdata.reservation_date = ""
                \/ userdata.reservation_time = ""
                \/ ~(userdata.party_size > 0) )
           => /\ last'.commits = <<>>
              /\ firebase' = firebase
              /\ last'.result = Advisory(ReservationRefusalText)
              /\ role' = "Confirmation" ]_vars

\* C2 witness: confirm-reservation was refused for a party size of zero with
\* every other reservation field present.
C2_Witness ==
    /\ ConfirmationCall("confirm_reservation")
    /\ userdata.customer_name # <<>>
    /\ userdata.customer_phone # <<>>
    /\ userdata.reservation_date # ""
    /\ userdata.reservation_time # ""
    /\ userdata.party_size = 0
    /\ last.result = Advisory(ReservationRefusalText)
    /\ role = "Confirmation"

\* C3: when the store's order or reservation write fails, the confirm tool
\* returns the apology Advisory, never the success text, and leaves the draft
\* in UserData unchanged.
C3_WriteFailureApology ==
    [][ ( /\ last'.agent = "Confirmation"
          /\ last'.tool \in {"confirm_order", "confirm_reservation"}
          /\ last'.commits # <<>>
          /\ ~last'.store_up )
        => /\ last'.result = Advisory(ApologyText)
           /\ userdata' = userdata ]_vars

\* C4: role transitions follow the table: intent_is_order is invoked in
\* IntentRouter and makes OrderTaking active, intent_is_reservation makes
\* ReservationTaking active, finalize_order is invoked in OrderTaking and
\* makes Confirmation active, and so does ReservationTaking's
\* confirm_reservation.
C4_TransitionTable ==
    /\ last.tool = "intent_is_order"
         => last.agent = "IntentRouter" /\ role = "OrderTaking"
    /\ last.tool = "intent_is_reservation"
         => last.agent = "IntentRouter" /\ role = "ReservationTaking"
    /\ last.tool = "finalize_order"
         => last.agent = "OrderTaking" /\ role = "Confirmation"
    /\ (last.agent = "ReservationTaking" /\ last.tool = "confirm_reservation")
         => role = "Confirmation"

\* C4 witness: the reservation route reached Confirmation through the draft
\* confirmation of ReservationTaking.
C4_Witness ==
    /\ last.agent = "ReservationTaking"
    /\ last.tool = "confirm_reservation"
    /\ userdata.intent = "reservation"
    /\ role = "Confirmation"

\* C5 (as claimed): after confirm-order or confirm-reservation succeeds in
\* Confirmation the active role is EndCall or IntentRouter.
C5_SuccessLeavesConfirmation ==
    ( /\ last.agent = "Confirmation"
      /\ last.tool \in {"confirm_order", "confirm_reservation"}
      /\ last.result \in {Advisory(OrderSuccessText), Advisory(ReservationSuccessText)} )
    => role \in {"EndCall", "IntentRouter"}

\* C5 (amended): confirm-order and confirm-reservation, success included,
\* leave Confirmation the active role; the only role that follows
\* Confirmation is EndCall, entered by end-call.
C5_ConfirmStaysInConfirmation ==
    [][ /\ ( /\ last'.agent = "Confirmation"
             /\ last'.tool \in {"confirm_order", "confirm_reservation"} )
           => role' = "Confirmation"
        /\ (role = "Confirmation" /\ role' # "Confirmation")
           => (role' = "EndCall" /\ last'.tool = "end_call") ]_vars

\* C5 witness: confirm-reservation returned the success text and Confirmation
\* is still the active role.
C5_Witness ==
    /\ ConfirmationCall("confirm_reservation")
    /\ last.result = Advisory(ReservationSuccessText)
    /\ role = "Confirmation"

C7_HandoffIsUnconditional ==
    ( \/ last.tool = "finalize_order"
      \/ (last.agent = "ReservationTaking" /\ last.tool = "confirm_reservation") )
    => last.result = Handoff("Confirmation")

\* C7 witness: finalize handed off to Confirmation with no name, no phone and
\* an empty draft order.
C7_Witness ==
    /\ last.tool = "finalize_order"
    /\ last.result = Handoff("Confirmation")
    /\ userdata.customer_name = <<>>
    /\ userdata.customer_phone = <<>>
    /\ userdata.current_order = <<>>

\* C8: set-phone stores "+1" and the digits for an input with exactly ten
\* digits, and "+" and the digits for an input with exactly eleven digits
\* that begin with 1.
C8_PhonePrefixed ==
    last.tool = "update_customer_phone" =>
        LET d == StripNonDigits(last.args[1])
        IN  /\ Len(d) = 10 => userdata.customer_phone = <<"+", "1">> \o d
            /\ (Len(d) = 11 /\ d[1] = "1") => userdata.customer_phone = <<"+">> \o d

\* C8 witness: an eleven-digit number beginning with 1, written with
\* separators, was stored with the + prefix.
C8_Witness ==
    /\ last.tool = "update_customer_phone"
    /\ Len(StripNonDigits(last.args[1])) = 11
    /\ Len(last.args[1]) > 11
    /\ userdata.customer_phone = <<"+">> \o StripNonDigits(last.args[1])
    /\ userdata.customer_phone[2] = "1"

\* C9 (as claimed): an input that is neither ten digits nor eleven digits
\* beginning with 1 after stripping is stored as it was given.
C9_OtherShapesStoredAsGiven ==
    last.tool = "update_customer_phone" =>
        LET d == StripNonDigits(last.args[1])
        IN  (Len(d) # 10 /\ ~(Len(d) = 11 /\ d[1] = "1"))
                => userdata.customer_phone = last.args[1]

\* C9 (amended): such an input is stored as its digits alone: the non-digit
\* characters are removed and no prefix is added.
C9_OtherShapesStoredStripped ==
    last.tool = "update_customer_phone" =>
        LET d == StripNonDigits(last.args[1])
        IN  (Len(d) # 10 /\ ~(Len(d) = 11 /\ d[1] = "1"))
                => userdata.customer_phone = d

\* C9 witness: a seven-digit number written with a separator was stored as
\* its seven digits.
C9_Witness ==
    /\ last.tool = "update_customer_phone"
    /\ Len(StripNonDigits(last.args[1])) = 7
    /\ last.args[1] # StripNonDigits(last.args[1])
    /\ userdata.customer_phone = StripNonDigits(last.args[1])

\* C10: in every reachable state the stored phone is empty or in normalized
\* form, whichever tool wrote it.
C10_StoredPhoneNormalized ==
    userdata.customer_phone = <<>> \/ PhoneNormalForm(userdata.customer_phone)


(***************************************************************************)
(* C11: after every mutation of the draft order, order_total equals the    *)
(* sum of unit price times quantity over the line items of the draft.  A   *)
(* line item of the draft names a menu item; its unit price is the price   *)
(* the menu gives that item.                                               *)
(***************************************************************************)
menu_price(item) ==
    IF \E m \in firebase.menu_items : m.name = item
    THEN (CHOOSE m \in firebase.menu_items : m.name = item).price
    ELSE 0

RECURSIVE draft_total(_)
draft_total(order) ==
    IF order = <<>> THEN 0
    ELSE menu_price(Head(order).item) * Head(order).quantity + draft_total(Tail(order))

TruncateCall == last.tool = "_truncate_chat_ctx"

IsToolArtifact(item) == item.type = "function_call" \/ item.type = "function_call_output"

IsSystemMessage(item) == item.type = "message" /\ item.role = "system"

\* the entries that pass the system/tool filter for the given flags
Eligible(items, keepSystem, keepToolArtifacts) ==
    SelectSeq(items, LAMBDA e : /\ (IsSystemMessage(e) => keepSystem)
                                /\ (IsToolArtifact(e) => keepToolArtifacts))

\* position of the first entry that is not a tool artifact (Len + 1 if none)
FirstNonTool(entries) ==
    IF \E i \in 1..Len(entries) : ~IsToolArtifact(entries[i])
    THEN CHOOSE i \in 1..Len(entries) :
            /\ ~IsToolArtifact(entries[i])
            /\ \A j \in 1..(i - 1) : IsToolArtifact(entries[j])
    ELSE Len(entries) + 1

\* C12: for every transcript and every setting of keepLast, keepSystem and
\* keepToolArtifacts, the window truncate returns does not begin with a
\* tool-call or tool-result.
C12_WindowNeverStartsWithTool ==
    TruncateCall =>
        (last.result.value = <<>> \/ ~IsToolArtifact(last.result.value[1]))

\* C12 witness: tool artifacts were kept, the kept entries began with a tool
\* call, and a non-empty window without that leading call came back.
C12_Witness ==
    /\ TruncateCall
    /\ last.args[4]
    /\ Len(last.args[1]) = 3 /\ last.args[2] >= 3
    /\ last.args[1][1].type = "function_call"
    /\ last.args[1][2].type = "function_call_output"
    /\ last.args[1][3].role = "user"
    /\ last.result.value = << last.args[1][3] >>

\* C13: on n plain messages with keepLast = k >= 1 truncate returns exactly
\* the last min(n, k) entries in their original order.
C13_PlainTranscriptKeepsLastK ==
    (/\ TruncateCall
     /\ last.args[2] >= 1
     /\ \A i \in 1..Len(last.args[1]) :
            last.args[1][i].type = "message" /\ last.args[1][i].role = "user")
    => LET n == Len(last.args[1])
           k == last.args[2]
           m == IF n < k THEN n ELSE k
       IN  last.result.value = SubSeq(last.args[1], n - m + 1, n)

\* C13 witness: ten plain messages with keepLast = 6 gave the messages 5..10.
C13_Witness ==
    /\ TruncateCall
    /\ Len(last.args[1]) = 10
    /\ last.args[2] = 6
    /\ Len(last.result.value) = 6
    /\ \A i \in 1..6 : last.result.value[i].id = i + 4

\* C14 (as claimed): with fewer eligible entries than keepLast truncate
\* returns all eligible entries; empty input, or input whose entries are all
\* filtered out, gives empty output.
C14_FewEligibleAllReturned ==
    TruncateCall =>
        LET eligible == Eligible(last.args[1], last.args[3], last.args[4])
        IN  /\ Len(eligible) < last.args[2] => last.result.value = eligible
            /\ eligible = <<>> => last.result.value = <<>>

\* C14 (amended): with fewer eligible entries than keepLast truncate returns
\* the eligible entries from the first one that is not a tool-call or
\* tool-result onward (all of them when tool artifacts are not kept); empty
\* input, or input whose entries are all filtered out, gives empty output.
C14_FewEligibleReturnedAfterLeadingTools ==
    TruncateCall =>
        LET eligible == Eligible(last.args[1], last.args[3], last.args[4])
        IN  /\ Len(eligible) < last.args[2] =>
                   /\ last.result.value =
                         SubSeq(eligible, FirstNonTool(eligible), Len(eligible))
                   /\ ~last.args[4] => last.result.value = eligible
            /\ eligible = <<>> => last.result.value = <<>>

\* C14 witness: system messages and tool artifacts both kept, fewer eligible
\* entries than keepLast, the eligible entries led by a tool result, and the
\* window is what follows it, a system message included.
C14_Witness ==
    /\ TruncateCall
    /\ last.args[3] /\ last.args[4]
    /\ Len(last.args[1]) = 4 /\ last.args[2] > 4
    /\ last.args[1][1].type = "function_call_output"
    /\ IsSystemMessage(last.args[1][2])
    /\ last.result.value = SubSeq(last.args[1], 2, 4)

\* the ids of a transcript's entries
Ids(entries) == { entries[i].id : i \in 1..Len(entries) }

\* C15: merge(target, source) keeps target as a prefix and appends, in source
\* order, exactly the source entries whose identity is not in target; the
\* result holds no identity twice.
C15_MergeAppendsNewInOrder ==
    last.tool = "merge" =>
        LET target == last.args[1]
            source == last.args[2]
            merged == last.result.value
            added == SubSeq(merged, Len(target) + 1, Len(merged))
        IN  /\ Len(merged) >= Len(target)
            /\ SubSeq(merged, 1, Len(target)) = target
            /\ Ids(added) = Ids(source) \ Ids(target)
            /\ \A i \in 1..Len(added) : \E j \in 1..Len(source) : source[j] = added[i]
            /\ \A i, j \in 1..Len(added) :
                   i < j => \E a, b \in 1..Len(source) :
                               a < b /\ source[a] = added[i] /\ source[b] = added[j]
            /\ \A i, j \in 1..Len(merged) : i # j => merged[i].id # merged[j].id

\* C15 witness: source shared an entry with a non-empty target and brought
\* two new ones, which were appended.
C15_Witness ==
    /\ last.tool = "merge"
    /\ Len(last.args[1]) >= 1
    /\ Ids(last.args[1]) \cap Ids(last.args[2]) # {}
    /\ Len(last.result.value) = Len(last.args[1]) + 2

(***************************************************************************)
(* Handoffs and on_enter.                                                  *)
(***************************************************************************)
\* the state right after a tool returned an agent and that agent was entered
HandoffDone == last.result.kind = "Handoff"

\* the window of a previous transcript a handoff is to carry over: its last
\* six non-system entries, from the first that is not a tool artifact
HandoffWindow(prev) ==
    LET eligible == Eligible(prev, FALSE, TRUE)
        recent == SubSeq(eligible,
                         IF Len(eligible) > 6 THEN Len(eligible) - 5 ELSE 1,
                         Len(eligible))
    IN  SubSeq(recent, FirstNonTool(recent), Len(recent))

\* C16: on-enter of every role, Confirmation included, injects one fresh
\* system directive into the new role's transcript and requests exactly one
\* greeting utterance.
C16_OnEnterInjectsDirective ==
    HandoffDone =>
        /\ last.on_enter.directives = 1
        /\ last.on_enter.greetings = 1
        /\ chat_ctx.agent # <<>>
        /\ IsSystemMessage(chat_ctx.agent[Len(chat_ctx.agent)])
        /\ chat_ctx.agent[Len(chat_ctx.agent)].id
              \notin Ids(last.on_enter.prev_items) \cup Ids(chat_ctx.session)

\* C17: on every handoff a previous role exists for the new role, on-enter
\* truncates its transcript keeping tool artifacts and merges it, and the new
\* transcript then contains every entry of the truncated window.
C17_HandoffMergesPreviousWindow ==
    HandoffDone =>
        /\ last.on_enter.merged
        /\ Ids(HandoffWindow(last.on_enter.prev_items)) \subseteq Ids(chat_ctx.agent)

\* a menu document lacks a field the menu text is built from
CatalogReadRaises ==
    \E item \in firebase.menu_items :
        "name" \notin DOMAIN item \/ "price" \notin DOMAIN item
            \/ "description" \notin DOMAIN item

DraftReady(ud) ==
    ud.customer_name # <<>> /\ ud.customer_phone # <<>> /\ Len(ud.current_order) >= 1

\* C19: two confirm-order invocations in a row on the same unchanged,
\* complete draft both present an order to the store, under the same
\* identifier, and at most one order record results for the draft.
C19_RepeatedConfirmSameIdentifier ==
    [][ (/\ ConfirmationCall("confirm_order")
         /\ last'.agent = "Confirmation" /\ last'.tool = "confirm_order"
         /\ DraftReady(userdata)
         /\ userdata' = userdata)
        => /\ last.commits # <<>>
           /\ last'.commits # <<>>
           /\ last'.commits[1].doc.id = last.commits[1].doc.id
           /\ Len(firebase'.orders) <= 1 ]_vars

\* the orders on record for a phone, earlier calls included
OrdersOnRecord(phone) ==
    Len(SelectSeq(PriorOrders, LAMBDA o : o.customer_phone = phone))
        + Len(SelectSeq(firebase.orders, LAMBDA o : o.customer_phone = phone))

\* C20: a commit is one atomic write: the store never holds an order record
\* whose customer-record update was not applied, that is, every order on
\* record is counted in the total_orders of its customer record.
C20_OrderAndCustomerWrittenTogether ==
    \A i \in 1..Len(firebase.orders) :
        \E c \in firebase.customers :
            /\ c.phone = firebase.orders[i].customer_phone
            /\ c.total_orders >= OrdersOnRecord(c.phone)

(***************************************************************************)
(* Corrections, party size and quantity.                                   *)
(***************************************************************************)
\* the SessionState field each allowlisted name stands for
CorrectedField(field) ==
    CASE field = "name" -> "customer_name"
      [] field = "phone" -> "customer_phone"
      [] field = "email" -> "customer_email"
      [] field = "date" -> "reservation_date"
      [] field = "time" -> "reservation_time"
      [] field = "party_size" -> "party_size"
      [] OTHER -> "none"

\* decimal texts of whole numbers among the values tried
NumericTexts == {"0", "1", "2", "3", "4", "5", "6", "7", "8", "9"}

\* C21: request-correction with an allowlisted field changes exactly that one
\* field and leaves the role unchanged; with a field outside the list or an
\* invalid value it changes nothing; the result is always an Advisory, never
\* an error.
C21_CorrectionChangesOneField ==
    [][ last'.tool = "request_correction" =>
          LET field == last'.args[1]
              value == last'.args[2]
              valid == /\ CorrectedField(field) # "none"
                       /\ (field = "party_size" => value \in NumericTexts)
          IN  /\ last'.result.kind = "Advisory"
              /\ role' = role
              /\ IF valid
                 THEN \A f \in DOMAIN userdata \ {CorrectedField(field)} :
                         userdata'[f] = userdata[f]
                 ELSE userdata' = userdata ]_vars

\* C22: the party size of the draft reservation is unset (0) or positive in
\* every state, and a request to store a size that is zero or negative, by
\* set-reservation-fields or by request-correction, is answered with an
\* Advisory and mutates nothing.
C22_PartySizePositiveOnceSet ==
    [][ /\ userdata'.party_size >= 0
        /\ ( \/ (last'.tool = "set_reservation_details" /\ last'.args[3] <= 0)
             \/ (/\ last'.tool = "request_correction"
                 /\ last'.args[1] = "party_size"
                 /\ last'.args[2] = "0") )
           => (userdata' = userdata /\ last'.result.kind = "Advisory") ]_vars

\* C28: every line item of the draft order has a quantity of at least 1.
C28_LineItemQuantityAtLeastOne ==
    \A i \in 1..Len(userdata.current_order) : userdata.current_order[i].quantity >= 1

(***************************************************************************)
(* Email and phone tools.                                                  *)
(***************************************************************************)
LocalChars ==
    {"a", "b", "c", "l", "m", "o", "s", "A", "B", "C", "L", "M", "O", "S",
     "0", "1", "2", "3", "4", "5", "6", "7", "8", "9", ".", "_", "%", "+", "-"}

\* e, blanks at its ends aside, is local@domain.tld with a tld of two or more
\* letters
AddressShaped(e) ==
    \E first \in 1..Len(e), final \in 1..Len(e), at \in 1..Len(e), dot \in 1..Len(e) :
        /\ \A i \in 1..Len(e) : (i < first \/ i > final) => e[i] = " "
        /\ first < at /\ at + 1 < dot /\ dot + 2 <= final
        /\ e[at] = "@" /\ e[dot] = "."
        /\ \A i \in first..(at - 1) : e[i] \in LocalChars
        /\ \A i \in (at + 1)..(dot - 1) : e[i] \in LocalChars \ {"_", "%", "+"}
        /\ \A i \in (dot + 1)..final :
              e[i] \in {"a", "b", "c", "l", "m", "o", "s", "A", "B", "C", "L", "M", "O", "S"}

\* C23: set-email with an input that does not match the address pattern
\* leaves the stored email and all other SessionState unchanged and returns
\* an Advisory; with a matching input it stores the address (trimmed, in
\* lower case) and changes nothing else.
C23_EmailValidatedBeforeStore ==
    [][ last'.tool = "update_customer_email" =>
          /\ last'.result.kind = "Advisory"
          /\ IF AddressShaped(last'.args[1])
             THEN /\ userdata'.customer_email
                        = lower(SelectSeq(last'.args[1], LAMBDA c : c # " "))
                  /\ \A f \in DOMAIN userdata \ {"customer_email"} :
                        userdata'[f] = userdata[f]
             ELSE userdata' = userdata ]_vars

\* C23 witness: an address was stored, and afterwards an input without a
\* top-level domain was refused with the stored address still in place.
C23_Witness ==
    /\ last.tool = "update_customer_email"
    /\ ~AddressShaped(last.args[1])
    /\ userdata.customer_email = <<"a", "@", "b", ".", "c", "o">>

\* the stored form of a phone input: +1 before ten digits, + before eleven
\* digits that begin with 1, the digits alone otherwise
ExpectedPhone(input) ==
    LET d == StripNonDigits(input)
    IN  CASE Len(d) = 10 -> <<"+", "1">> \o d
          [] Len(d) = 11 /\ d[1] = "1" -> <<"+">> \o d
          [] OTHER -> d

SaidPhone(u) ==
    \E i \in 1..Len(u), j \in 1..Len(u) :
        /\ i <= j
        /\ Len(StripNonDigits(SubSeq(u, i, j))) >= 10
        /\ \A k \in i..j : u[k] \in {"0", "1", "2", "3", "4", "5", "6", "7", "8", "9",
                                     "+", "-", ".", " ", "(", ")"}

\* the caller said an email address
SaidEmail(u) ==
    \E i \in 1..Len(u), j \in 1..Len(u) : i <= j /\ AddressShaped(SubSeq(u, i, j))

\* the store holds orders under a phone exactly as the caller said it
HistoryUnderSaidPhone(u) ==
    \E i \in 1..Len(u), j \in 1..Len(u) :
        \E k \in 1..Len(PriorOrders) :
            i <= j /\ SubSeq(u, i, j) = PriorOrders[k].customer_phone

\* the hook of this step added an assistant entry to the transcript
SyntheticEntryAdded ==
    \E i \in (Len(chat_ctx.agent) + 1)..Len(chat_ctx'.agent) :
        chat_ctx'.agent[i].role = "assistant"

\* the transcript gained the caller's message and nothing else
OnlyCallerMessageAdded ==
    /\ Len(chat_ctx'.agent) = Len(chat_ctx.agent) + 1
    /\ SubSeq(chat_ctx'.agent, 1, Len(chat_ctx.agent)) = chat_ctx.agent
    /\ chat_ctx'.agent[Len(chat_ctx'.agent)].role = "user"

\* C25 (as claimed): the hook appends a synthetic entry only when the
\* utterance has a phone match and the lookup for it returned history;
\* otherwise the transcript is unchanged and the turn proceeds.
C25_EntryOnlyOnPhoneHistory ==
    [][ last'.tool = "on_user_turn_completed" =>
          LET u == last'.args[1]
              history == SaidPhone(u) /\ last'.store_up /\ HistoryUnderSaidPhone(u)
          IN  /\ SyntheticEntryAdded => history
              /\ ~history => OnlyCallerMessageAdded ]_vars

\* C25 (amended): the hook appends a synthetic entry exactly when the
\* utterance has a phone match whose lookup returned history or has an email
\* match; otherwise the transcript gains nothing from the hook; the turn
\* proceeds without error either way.
C25_EntryOnPhoneHistoryOrEmail ==
    [][ last'.tool = "on_user_turn_completed" =>
          LET u == last'.args[1]
              history == SaidPhone(u) /\ last'.store_up /\ HistoryUnderSaidPhone(u)
          IN  /\ SyntheticEntryAdded <=> (history \/ SaidEmail(u))
              /\ ~(history \/ SaidEmail(u)) => OnlyCallerMessageAdded
              /\ last'.result.kind # "Error" ]_vars

\* C25 witness: the caller said the known customer's number in its stored
\* form, the store answered, and the transcript holds a synthetic assistant
\* entry before the caller's message.
C25_Witness ==
    /\ last.tool = "on_user_turn_completed"
    /\ last.store_up
    /\ last.lookups = << KnownPhone >>
    /\ ~SaidEmail(last.args[1])
    /\ Len(chat_ctx.agent) >= 2
    /\ chat_ctx.agent[Len(chat_ctx.agent) - 1].role = "assistant"
    /\ chat_ctx.agent[Len(chat_ctx.agent)].role = "user"

(***************************************************************************)
(* The profile summary.                                                    *)
(***************************************************************************)
SummaryOrder ==
    <<"Customer", "Phone", "Current order", "Reservation", "Previous orders", "Loyalty points">>

NewCustomerMarker == << <<"New customer, no prior data">> >>

\* the parts of a summary carry their labels in the fixed order, none twice
InSummaryOrder(parts) ==
    \E at \in [1..Len(parts) -> 1..Len(SummaryOrder)] :
        /\ \A i \in 1..Len(parts) : parts[i][1] = SummaryOrder[at[i]]
        /\ \A i \in 1..Len(parts), j \in 1..Len(parts) : i < j => at[i] < at[j]

\* the summary has the part p
HasPart(parts, p) == \E i \in 1..Len(parts) : parts[i] = p

HasLabel(parts, label) == \E i \in 1..Len(parts) : parts[i][1] = label

\* the parts every reading of the summary agrees on
SingleFieldParts(parts, ud) ==
    /\ HasLabel(parts, "Customer") <=> ud.customer_name # <<>>
    /\ HasLabel(parts, "Customer") => HasPart(parts, <<"Customer", ud.customer_name>>)
    /\ HasLabel(parts, "Phone") <=> ud.customer_phone # <<>>
    /\ HasLabel(parts, "Phone") => HasPart(parts, <<"Phone", ud.customer_phone>>)
    /\ HasLabel(parts, "Current order") <=> ud.current_order # <<>>
    /\ HasLabel(parts, "Current order") =>
          HasPart(parts, <<"Current order", Len(ud.current_order), ud.order_total>>)
    /\ HasLabel(parts, "Previous orders") <=> ud.order_history # <<>>
    /\ HasLabel(parts, "Previous orders") =>
          HasPart(parts, <<"Previous orders", Len(ud.order_history)>>)
    /\ HasLabel(parts, "Loyalty points") <=> ud.loyalty_points > 0
    /\ HasLabel(parts, "Loyalty points") =>
          HasPart(parts, <<"Loyalty points", ud.loyalty_points>>)
    /\ HasLabel(parts, "Reservation") =>
          HasPart(parts, <<"Reservation", ud.reservation_date, ud.reservation_time,
                           ud.party_size>>)

\* some field the summary reports is present
SomeSummaryFieldPresent(ud) ==
    \/ ud.customer_name # <<>>
    \/ ud.customer_phone # <<>>
    \/ ud.current_order # <<>>
    \/ ud.reservation_date # ""
    \/ ud.reservation_time # ""
    \/ ud.party_size # 0
    \/ ud.order_history # <<>>
    \/ ud.loyalty_points > 0

\* C26 (as claimed): summarize emits, in the fixed order, exactly the parts
\* whose fields are non-empty or non-zero, and returns the new-customer
\* marker if and only if none of those fields is present.
C26_SummaryPartsForPresentFields ==
    last.tool = "get_customer_summary" =>
        LET parts == last.result.value
        IN  /\ parts = NewCustomerMarker <=> ~SomeSummaryFieldPresent(userdata)
            /\ parts # NewCustomerMarker =>
                  /\ InSummaryOrder(parts)
                  /\ SingleFieldParts(parts, userdata)
                  /\ HasLabel(parts, "Reservation") <=>
                        (\/ userdata.reservation_date # ""
                         \/ userdata.reservation_time # ""
                         \/ userdata.party_size # 0)

\* C26 (amended): summarize emits, in the fixed order, the name, phone,
\* draft, prior-order and loyalty parts exactly when their field is non-empty
\* or positive, and the reservation part exactly when both the date and the
\* time are set; it returns the new-customer marker if and only if no part
\* is emitted.
C26_SummaryPartsReservationNeedsDateAndTime ==
    last.tool = "get_customer_summary" =>
        LET parts == last.result.value
            reserved == userdata.reservation_date # "" /\ userdata.reservation_time # ""
            none == /\ userdata.customer_name = <<>>
                    /\ userdata.customer_phone = <<>>
                    /\ userdata.current_order = <<>>
                    /\ ~reserved
                    /\ userdata.order_history = <<>>
                    /\ userdata.loyalty_points <= 0
        IN  /\ parts = NewCustomerMarker <=> none
            /\ parts # NewCustomerMarker =>
                  /\ InSummaryOrder(parts)
                  /\ SingleFieldParts(parts, userdata)
                  /\ HasLabel(parts, "Reservation") <=> reserved

\* C26 witness: a summary was asked for with a date but no time on the
\* session and a name known, and it reports the name without a reservation.
C26_Witness ==
    /\ last.tool = "get_customer_summary"
    /\ userdata.reservation_date # ""
    /\ userdata.reservation_time = ""
    /\ userdata.customer_name # <<>>
    /\ HasLabel(last.result.value, "Customer")
    /\ ~HasLabel(last.result.value, "Reservation")

(***************************************************************************)
(* Session state across role transitions.                                  *)
(***************************************************************************)
IdentityAndDrafts(ud) ==
    << ud.customer_name, ud.customer_phone, ud.customer_email, ud.authenticated,
       ud.call_id, ud.current_order, ud.order_total, ud.special_instructions,
       ud.payment_method, ud.reservation_date, ud.reservation_time, ud.party_size >>

\* C27: every role transition leaves the identity fields of the session
\* state (name, phone, email, authentication flag, call identifier) and the
\* order and reservation drafts as they were: the new role works on the
\* values the old role had.
C27_TransitionKeepsIdentityAndDrafts ==
    [][ (last'.result.kind = "Handoff" \/ (role' # role /\ role' # "EndCall")) =>
            IdentityAndDrafts(userdata') = IdentityAndDrafts(userdata) ]_vars

\* C27 witness: a transition to the confirmation role was made with a name,
\* a phone and a non-empty draft order on the session.
C27_Witness ==
    /\ last.result.kind = "Handoff"
    /\ last.agent # role
    /\ role = "Confirmation"
    /\ userdata.customer_name # <<>>
    /\ userdata.customer_phone # <<>>
    /\ userdata.current_order # <<>>


\* C30: for every keepLast >= 0 and every transcript truncate returns at
\* most keepLast entries; keepLast = 0 returns an empty window.
C30_WindowAtMostKeepLast ==
    TruncateCall =>
        /\ Len(last.result.value) <= last.args[2]
        /\ last.args[2] = 0 => last.result.value = <<>>

(***************************************************************************)
(* Errors at the session boundary.                                         *)
(***************************************************************************)
\* C29: no internal error terminates the session: with a valid
\* configuration, whatever is raised during session start is caught and the
\* session is active once entrypoint is done, no exception leaving it.
C29_NoInternalErrorEndsSession ==
    (last.tool = "entrypoint" /\ last.args[1]) =>
        /\ last.result.kind # "Error"
        /\ role = "IntentRouter"

(***************************************************************************)
(* Truncation as a filter.                                                 *)
(***************************************************************************)
\* C31: truncate returns an order-preserving subsequence of its input (every
\* returned entry is the input entry at its position, positions increasing);
\* with keepSystem false the result holds no system message and with
\* keepToolArtifacts false no tool-call or tool-result entry.
C31_TruncateIsFilteredSubsequence ==
    TruncateCall =>
        LET items == last.args[1]
            window == last.result.value
        IN  /\ \A i \in 1..Len(window) :
                  /\ window[i].id \in 1..Len(items)
                  /\ items[window[i].id] = window[i]
            /\ \A i \in 1..Len(window), j \in 1..Len(window) :
                  i < j => window[i].id < window[j].id
            /\ ~last.args[3] => \A i \in 1..Len(window) : ~IsSystemMessage(window[i])
            /\ ~last.args[4] => \A i \in 1..Len(window) : ~IsToolArtifact(window[i])

\* C31 witness: a transcript holding a system message and a tool entry among
\* caller messages was truncated with both flags off, and two caller
\* messages from either side of them came back.
C31_Witness ==
    /\ TruncateCall
    /\ ~last.args[3]
    /\ ~last.args[4]
    /\ \E i \in 1..Len(last.args[1]) : IsSystemMessage(last.args[1][i])
    /\ \E i \in 1..Len(last.args[1]) : IsToolArtifact(last.args[1][i])
    /\ Len(last.result.value) = 2
    /\ last.result.value[2].id - last.result.value[1].id > 1

(***************************************************************************)
(* Who writes to the store.                                                *)
(***************************************************************************)
\* C32: the order commit and the reservation commit are invoked only while
\* the active role is Confirmation, by its two confirm tools: no tool of
\* IntentRouter, OrderTaking or ReservationTaking and no shared tool writes
\* an order or a reservation.
C32_CommitsOnlyInConfirmation ==
    [][ (\/ last'.commits # <<>>
         \/ firebase'.orders # firebase.orders
         \/ firebase'.reservations # firebase.reservations)
        => /\ role = "Confirmation"
           /\ last'.tool \in {"confirm_order", "confirm_reservation"} ]_vars

\* C32 witness: the confirmation role's confirm_reservation invoked the
\* reservation commit and the store holds the reservation.
C32_Witness ==
    /\ last.agent = "Confirmation"
    /\ last.tool = "confirm_reservation"
    /\ last.commits # <<>>
    /\ last.commits[1].op = "save_reservation"
    /\ Len(firebase.reservations) = 1

C34_CommitMatchesIntent ==
    \A i \in 1..Len(last.commits) :
        /\ last.commits[i].op = "create_order" => userdata.intent = "order"
        /\ last.commits[i].op = "save_reservation" => userdata.intent = "reservation"

(***************************************************************************)
(* Role progression.                                                       *)
(***************************************************************************)
\* one step of the progression: IntentRouter is not re-entered, OrderTaking
\* and ReservationTaking are entered from IntentRouter only, Confirmation
\* from one of those two only, and Confirmation is left by end_call only
OneWayStep ==
    /\ role # "IntentRouter" => role' # "IntentRouter"
    /\ (role' = "OrderTaking" /\ role # "OrderTaking") => role = "IntentRouter"
    /\ (role' = "ReservationTaking" /\ role # "ReservationTaking") => role = "IntentRouter"
    /\ (role' = "Confirmation" /\ role # "Confirmation")
          => role \in {"OrderTaking", "ReservationTaking"}
    /\ (role = "Confirmation" /\ role' # "Confirmation")
          => last'.tool = "end_call" /\ role' = "EndCall"

\* C35: role progression is one-way: a session that left IntentRouter never
\* returns to it, Confirmation is entered only from OrderTaking or
\* ReservationTaking, OrderTaking and ReservationTaking are never both
\* visited in one session (each is entered from IntentRouter only, which is
\* never re-entered), and no tool of Confirmation other than end_call
\* changes the active role.
C35_RoleProgressionOneWay == [][OneWayStep]_vars

\* C35 witness: a session that went through OrderTaking is in Confirmation,
\* where a tool other than end_call has just run and left the role as it was.
C35_Witness ==
    /\ role = "Confirmation"
    /\ last.agent = "Confirmation"
    /\ last.tool = "cancel_request"
    /\ userdata.intent = "order"

(***************************************************************************)
(* The two phone normalisers.                                              *)
(***************************************************************************)
\* C36: phone normalization is idempotent: passing a stored phone through
\* set-phone again leaves the stored phone as it was, and normalising what
\* _normalize_phone returned returns it again.
C36_NormalizationIdempotent ==
    [][ /\ (/\ last'.tool = "update_customer_phone"
            /\ userdata.customer_phone # <<>>
            /\ last'.args[1] = userdata.customer_phone)
           => userdata'.customer_phone = userdata.customer_phone
        /\ (/\ last'.tool = "_normalize_phone"
            /\ last.tool = "_normalize_phone"
            /\ last'.args[1] = last.result.phone)
           => last'.result.phone = last.result.phone ]_vars

\* C36 witness: a number stored with its country code went through the phone
\* tool once more.
C36_Witness ==
    /\ last.tool = "update_customer_phone"
    /\ last.args[1] = userdata.customer_phone
    /\ Len(userdata.customer_phone) = 12
    /\ userdata.customer_phone[1] = "+"

\* C37: the two phone normalizers agree: for every non-empty input, the
\* value the phone tool stores equals the value _normalize_phone returns.
C37_NormalizersAgree ==
    [][ (/\ last.tool = "update_customer_phone"
         /\ last'.tool = "_normalize_phone"
         /\ last'.args = last.args
         /\ last.args[1] # <<>>)
        => last'.result.phone = userdata.customer_phone ]_vars

(***************************************************************************)
(* The phone tool and the customer's name.                                 *)
(***************************************************************************)
\* the customer records the store returns for the phone as it is stored
RecordsFor(input, up) ==
    IF up THEN { c \in firebase.customers : c.phone = ExpectedPhone(input) } ELSE {}

\* the orders on file under the phone as it is stored
OrdersFor(input) ==
    SelectSeq(PriorOrders \o firebase.orders,
              LAMBDA o : o.customer_phone = ExpectedPhone(input))

\* C38: set-phone never overwrites a customer name that is already set: when
\* the history lookup returns a record the name is taken from it only if the
\* session's name was empty, while the history snapshot (preferences,
\* loyalty points, prior orders) is replaced by the looked-up values.
C38_PhoneKeepsNameReplacesSnapshot ==
    [][ last'.tool = "update_customer_phone" =>
          LET records == RecordsFor(last'.args[1], last'.store_up)
          IN  /\ userdata.customer_name # <<>>
                    => userdata'.customer_name = userdata.customer_name
              /\ \A c \in records :
                    /\ userdata.customer_name = <<>>
                          => userdata'.customer_name = c.name
                    /\ userdata'.loyalty_points = c.loyalty_points
                    /\ userdata'.customer_preferences = records
                    /\ userdata'.order_history = OrdersFor(last'.args[1])
              /\ records = {} => userdata'.customer_name = userdata.customer_name ]_vars

\* C38 witness: a caller who gave the name Sam then gave the phone of the
\* known customer Al; the lookup answered, the snapshot is Al's and the name
\* is still Sam.
C38_Witness ==
    /\ last.tool = "update_customer_phone"
    /\ last.store_up
    /\ userdata.customer_phone = KnownPhone
    /\ userdata.customer_name = <<"S", "a", "m">>
    /\ userdata.loyalty_points = 10
    /\ userdata.order_history # <<>>
====
